---- MODULE Spec2Model ----
(***************************************************************************)
(* A model of wskdeploy's manifest-to-entity composition engine            *)
(* (parsers/manifest_parser.go), of its deployment-override merger         *)
(* (deployers/deploymentreader.go) and of the web-export annotation        *)
(* shaping (utils/webaction.go).                                           *)
(*                                                                         *)
(* Go maps are functions over a finite set of keys; a nil map is told from *)
(* an empty one by the "isNil" field of a map value.  The iteration order  *)
(* of a Go map is not specified: every loop over a map is modelled as a    *)
(* choice among all orders.  whisk.KeyValueArr is a sequence of records    *)
(* [Key, Value]; all values are strings, Nil stands for Go's nil.          *)
(***************************************************************************)
EXTENDS Integers, Sequences, FiniteSets, TLC

VARIABLES
    pc,            \* position of the running call
    descriptor,    \* reader.DeploymentDescriptor (parsers.YAML)
    deployment,    \* reader.serviceDeployer.Deployment, mutated in place
    composed0,     \* the composed entity set as handed to BindAssets
    packMap,       \* the local packMap of the running bind* function
    todo,          \* keys of packMap the running range loop has not visited
    visited,       \* <<scan, packName>> in the order the loops visited them
    err            \* the error the call returned (NoError while none)

bindVars == <<pc, descriptor, deployment, composed0, packMap, todo, visited, err>>

VARIABLES
    webAnnotations,  \* the annotation list the next call of WebAction is given
    webFetch,        \* the fetch flag of the calls
    webCalls         \* the calls of WebAction so far: [mode, given, result, err]

webVars == <<webAnnotations, webFetch, webCalls>>

VARIABLES
    cpc,          \* position of the running call of ComposeActions
    actionMap,    \* the actions argument: name -> parsers.Action
    flags,        \* utils.Flags: [Strict, Managed]
    fs,           \* the files that exist and can be read
    unvisited,    \* keys of the actions argument the range loop has not visited
    s1,           \* the local s1: the records appended so far
    ext,          \* the local ext, declared outside the loop
    deferred,     \* the archives whose removal is deferred to the return
    trail,        \* the iterations run so far: [key, ext, err]
    composeResult,\* the list the call returned
    composeErr    \* the error the call returned

composeVars ==
    <<cpc, actionMap, flags, fs, unvisited, s1, ext, deferred, trail, composeResult, composeErr>>

VARIABLES
    apc,              \* position of the running compose-all call
    entry,            \* the compose-all entry point that was called
    maniDoc,          \* the manifest argument (parsers.YAML)
    allFlags,         \* utils.Flags during the call
    selected,         \* the source the call took its packages from
    manifestPackages, \* the local manifestPackages
    pending,          \* keys of manifestPackages the loop has not visited
    aggregate,        \* the local result the loop builds up
    composedLog,      \* the single-package composer calls: [name, err]
    allResult,        \* the result the call returned
    allErr            \* the error the call returned

allVars ==
    <<apc, entry, maniDoc, allFlags, selected, manifestPackages, pending, aggregate,
      composedLog, allResult, allErr>>

vars == <<bindVars, webVars, composeVars, allVars>>

-----------------------------------------------------------------------------
(* Generic helpers *)

Nil == "nil"

NoError == [kind |-> "none", key |-> "", file |-> ""]

KV(k, v) == [Key |-> k, Value |-> v]

EmptyMap == <<>>

\* A Go map value: nil or a (possibly empty) mapping.
NilMap == [isNil |-> TRUE, m |-> EmptyMap]

MapOf(f) == [isNil |-> FALSE, m |-> f]

\* All restrictions of the function f to a subset of its domain.
SubMaps(f) == {[k \in S |-> f[k]] : S \in SUBSET DOMAIN f}

\* All orders in which a range loop can visit the key set S.
Perms(S) ==
    {s \in [1..Cardinality(S) -> S] : \A i, j \in 1..Cardinality(S) : s[i] = s[j] => i = j}

\* All sequences without repetition over S of length at most n.
InjSeqs(S, n) ==
    UNION {Perms(T) : T \in {U \in SUBSET S : Cardinality(U) <= n}}

KeysOf(arr) == {arr[i].Key : i \in DOMAIN arr}

Min(S) == CHOOSE x \in S : \A y \in S : x <= y

-----------------------------------------------------------------------------
(* The deployment descriptor and the composed entity set *)

\* The file the deployment descriptor was parsed from (YAML.Filepath).
DeploymentFile == "deployment.yaml"

\* wskenv.GetEnvVar: "${NAME}" is replaced by the value of the environment
\* variable, any other value (nil included) is returned as it is.
EnvReference == "${E}"

EnvValue == "8"

GetEnvVar(v) == IF v = EnvReference THEN EnvValue ELSE v

\* A package, action or trigger of the deployment descriptor without content.
NoOverride == [Inputs |-> EmptyMap, Annotations |-> EmptyMap]

EmptyPackage ==
    [Packagename |-> "", Inputs |-> EmptyMap, Annotations |-> EmptyMap,
     Actions |-> EmptyMap, Triggers |-> EmptyMap]

\* YAML.GetProject(): the project wrapper of the document.
GetProject(yaml) == yaml.Project

\* A platform entity as far as the merger reads and writes it.
Entity(params, annots) == [Parameters |-> params, Annotations |-> annots]

-----------------------------------------------------------------------------
(* deploymentreader.go: the package map of the deployment descriptor *)

\* depPacks.Packagename = packName; packMap[packName] = depPacks
NamedPackages(m) == [n \in DOMAIN m |-> [m[n] EXCEPT !.Packagename = n]]

ResolvePackMap(yaml) ==
    IF GetProject(yaml).Packages.isNil
    THEN IF GetProject(yaml).Package.Packagename # ""
         THEN GetProject(yaml).Package.Packagename :> GetProject(yaml).Package
         ELSE IF ~yaml.Packages.isNil
              THEN NamedPackages(yaml.Packages.m)
              ELSE yaml.Package.Packagename :> yaml.Package
    ELSE NamedPackages(GetProject(yaml).Packages.m)

-----------------------------------------------------------------------------
(* manifest_parser.go: the package map the compose-all entry points read *)

\* A variant that prefers the packages map to the single package.
ManifestSourceMapFirst(manifest) ==
    IF Cardinality(DOMAIN manifest.Packages.m) # 0 THEN "Packages"
    ELSE IF manifest.Package.Packagename # "" THEN "Package"
    ELSE "Project.Packages"

\* The branch the entry points take (lines 203, 213 and 215).
ManifestSource(manifest) ==
    IF manifest.Package.Packagename # "" THEN "Package"
    ELSE IF Cardinality(DOMAIN manifest.Packages.m) # 0 THEN "Packages"
    ELSE "Project.Packages"

AuthoritativePackages(manifest) ==
    CASE ManifestSource(manifest) = "Package" -> manifest.Package.Packagename :> manifest.Package
      [] ManifestSource(manifest) = "Packages" -> manifest.Packages.m
      [] ManifestSource(manifest) = "Project.Packages" -> GetProject(manifest).Packages.m

-----------------------------------------------------------------------------
(* deploymentreader.go: the two merge rules *)

\* A merge that appends every manifest parameter, overridden keys included.
MergeInputsKeepAll(inputs, order, params) ==
    [i \in 1..Len(order) |-> KV(order[i], GetEnvVar(inputs[order[i]]))] \o params

\* The deployment inputs in the order the range loop visited them, then the
\* manifest parameters whose key the deployment does not declare.
MergeInputs(inputs, order, params) ==
    [i \in 1..Len(order) |-> KV(order[i], GetEnvVar(inputs[order[i]]))]
        \o SelectSeq(params, LAMBDA kv : kv.Key \notin DOMAIN inputs)

\* An annotation loop that adds a key the entity does not have.
RECURSIVE MergeAnnotationsAdd(_, _, _)
MergeAnnotationsAdd(annotations, order, list) ==
    IF order = <<>>
    THEN [Annotations |-> list, err |-> NoError]
    ELSE LET name == Head(order)
             hits == {i \in DOMAIN list : list[i].Key = name}
         IN  IF hits = {}
             THEN MergeAnnotationsAdd(annotations, Tail(order),
                      Append(list, KV(name, annotations[name])))
             ELSE MergeAnnotationsAdd(annotations, Tail(order),
                      [list EXCEPT ![Min(hits)].Value = annotations[name]])

\* The annotation loop: every deployment annotation must name an annotation
\* of the entity, whose first entry with that key is overwritten; the first
\* key that names none ends the loop with an error.
RECURSIVE MergeAnnotations(_, _, _)
MergeAnnotations(annotations, order, list) ==
    IF order = <<>>
    THEN [Annotations |-> list, err |-> NoError]
    ELSE LET name == Head(order)
             hits == {i \in DOMAIN list : list[i].Key = name}
         IN  IF hits = {}
             THEN [Annotations |-> list,
                   err |-> [kind |-> "YAMLFileFormatError", key |-> name,
                            file |-> DeploymentFile]]
             ELSE MergeAnnotations(annotations, Tail(order),
                      [list EXCEPT ![Min(hits)].Value = annotations[name]])

\* The merge of one deployment entity into one composed entity.
MergeEntity(override, entity, io, ao) ==
    LET params == IF Cardinality(DOMAIN override.Inputs) > 0
                  THEN MergeInputs(override.Inputs, io, entity.Parameters)
                  ELSE entity.Parameters
        r == MergeAnnotations(override.Annotations, ao, entity.Annotations)
    IN  [entity |-> Entity(params, r.Annotations), err |-> r.err]

\* The orders in which the inner loops can visit the inputs (annotations) of
\* each entity of a map of deployment entities.
OrdersFor(entities, field) ==
    {f \in [DOMAIN entities ->
               UNION {Perms(DOMAIN entities[n][field]) : n \in DOMAIN entities}] :
        \A n \in DOMAIN entities : f[n] \in Perms(DOMAIN entities[n][field])}

\* A package loop that skips the unmatched package and goes on.
PackageMismatchContinue(remaining) == remaining

\* serviceDeployPack == nil in the package loop: a warning, then break.
PackageMismatch(remaining) == {}

\* serviceDeployPack == nil in the package loop of the action merge: break.
ActionMismatch(remaining) == {}

\* The body of the package loop for a package the composed set holds.
BindPackageBody(dep, pack, io, ao) ==
    LET r == MergeEntity(pack, dep.Packages[pack.Packagename].Package, io, ao)
    IN  [deployment |-> [dep EXCEPT !.Packages[pack.Packagename].Package = r.entity],
         err |-> r.err]

\* The loop over the actions of one deployment package.
RECURSIVE BindActionsBody(_, _, _, _, _, _)
BindActionsBody(dep, packName, actions, order, ios, aos) ==
    IF order = <<>>
    THEN [deployment |-> dep, err |-> NoError]
    ELSE LET actionName == Head(order)
         IN  IF actionName \notin DOMAIN dep.Packages[packName].Actions
             THEN BindActionsBody(dep, packName, actions, Tail(order), ios, aos)
             ELSE LET r == MergeEntity(actions[actionName],
                                       dep.Packages[packName].Actions[actionName],
                                       ios[actionName], aos[actionName])
                      next == [dep EXCEPT
                                 !.Packages[packName].Actions[actionName] = r.entity]
                  IN  IF r.err # NoError
                      THEN [deployment |-> next, err |-> r.err]
                      ELSE BindActionsBody(next, packName, actions, Tail(order),
                                           ios, aos)

\* A trigger loop that fails on a trigger the composed set does not hold.
RECURSIVE BindTriggersBodyStrict(_, _, _, _, _)
BindTriggersBodyStrict(dep, triggers, order, ios, aos) ==
    IF order = <<>>
    THEN [deployment |-> dep, err |-> NoError]
    ELSE LET triggerName == Head(order)
         IN  IF triggerName \notin DOMAIN dep.Triggers
             THEN [deployment |-> dep,
                   err |-> [kind |-> "YAMLFileFormatError", key |-> triggerName,
                            file |-> DeploymentFile]]
             ELSE LET r == MergeEntity(triggers[triggerName],
                                       dep.Triggers[triggerName],
                                       ios[triggerName], aos[triggerName])
                      next == [dep EXCEPT !.Triggers[triggerName] = r.entity]
                  IN  IF r.err # NoError
                      THEN [deployment |-> next, err |-> r.err]
                      ELSE BindTriggersBodyStrict(next, triggers, Tail(order), ios, aos)

\* The loop over the triggers of one deployment package.
RECURSIVE BindTriggersBody(_, _, _, _, _)
BindTriggersBody(dep, triggers, order, ios, aos) ==
    IF order = <<>>
    THEN [deployment |-> dep, err |-> NoError]
    ELSE LET triggerName == Head(order)
         IN  IF triggerName \notin DOMAIN dep.Triggers
             THEN BindTriggersBody(dep, triggers, Tail(order), ios, aos)
             ELSE LET r == MergeEntity(triggers[triggerName],
                                       dep.Triggers[triggerName],
                                       ios[triggerName], aos[triggerName])
                      next == [dep EXCEPT !.Triggers[triggerName] = r.entity]
                  IN  IF r.err # NoError
                      THEN [deployment |-> next, err |-> r.err]
                      ELSE BindTriggersBody(next, triggers, Tail(order), ios, aos)

-----------------------------------------------------------------------------
(* The inputs of BindAssets the model explores *)

MaxParams == 2

PackageNames == {"p1", "p2"}

ActionName == "a1"

TriggerName == "t1"

\* Manifest side: an entity declares the inputs s (in the order the composer
\* visited them) and an annotation for each of them.
ManifestParamValue == [x |-> "1", y |-> "2"]

ManifestAnnotOf == [x |-> [Key |-> "a", Value |-> "1"], y |-> [Key |-> "b", Value |-> "2"]]

ManifestEntities ==
    {Entity([i \in DOMAIN s |-> KV(s[i], ManifestParamValue[s[i]])],
            [i \in DOMAIN s |-> ManifestAnnotOf[s[i]]]) :
        s \in InjSeqs(DOMAIN ManifestParamValue, MaxParams)}

\* Deployment side: the inputs and annotations an entity may declare.
DeploymentInputs == [x |-> "9", w |-> EnvReference]

DeploymentAnnotations == [a |-> "5", c |-> "6"]

\* An input the deployment descriptor declares without a value.
ValuelessInputs == [v |-> Nil]

\* The inputs the first deployment package declares where it overrides.
DeploymentInputChoices == (SubMaps(DeploymentInputs) \ {EmptyMap}) \cup {ValuelessInputs}

\* What the second deployment package declares where it overrides.
OtherInputs == [x |-> "7"]

OtherAnnotations == [a |-> "7"]

\* The package names of the composed entity set.
ComposedNames == {{"p1"}, {"p1", "p2"}}

\* The composed entity set: the packages of comp, each with the action
\* ActionName when withAction, and the trigger TriggerName when withTrigger.
ComposedSet(comp, withAction, withTrigger, entity) ==
    [Packages |->
        [n \in comp |->
            [Package |-> entity,
             Actions |-> IF withAction THEN ActionName :> entity ELSE EmptyMap]],
     Triggers |-> IF withTrigger THEN TriggerName :> entity ELSE EmptyMap]

\* What one deployment package overrides: nothing, or the inputs, the
\* annotations or both of the package, of its action or of its trigger.
OverrideShapes ==
    {<<"none", "none">>} \cup ({"package", "action", "trigger"} \X {"in", "an", "both"})

OverrideOf(shape, level, inputs, annots) ==
    IF shape[1] # level THEN NoOverride
    ELSE [Inputs |-> IF shape[2] \in {"in", "both"} THEN inputs ELSE EmptyMap,
          Annotations |-> IF shape[2] \in {"an", "both"} THEN annots ELSE EmptyMap]

DeploymentPackage(shape, inputs, annots) ==
    [Packagename |-> "",
     Inputs |-> OverrideOf(shape, "package", inputs, annots).Inputs,
     Annotations |-> OverrideOf(shape, "package", inputs, annots).Annotations,
     Actions |-> IF shape[1] = "action"
                 THEN ActionName :> OverrideOf(shape, "action", inputs, annots)
                 ELSE EmptyMap,
     Triggers |-> IF shape[1] = "trigger"
                  THEN TriggerName :> OverrideOf(shape, "trigger", inputs, annots)
                  ELSE EmptyMap]

YAML(projectPackages, projectPackage, packages, package) ==
    [Filepath |-> DeploymentFile,
     Project |-> [Packages |-> projectPackages, Package |-> projectPackage],
     Packages |-> packages,
     Package |-> package]

\* Descriptors with the "packages" key alone.
PackagesDescriptors(inputs, annots) ==
    {YAML(NilMap, EmptyPackage,
          MapOf([n \in DOMAIN shapes |->
                    IF n = "p1" THEN DeploymentPackage(shapes[n], inputs, annots)
                    ELSE DeploymentPackage(shapes[n], OtherInputs, OtherAnnotations)]),
          EmptyPackage) :
        shapes \in UNION {[names -> OverrideShapes] : names \in SUBSET PackageNames}}

\* A package that overrides the input x with a value naming its source.
SourcePackage(name, source) ==
    [EmptyPackage EXCEPT !.Packagename = name, !.Inputs = "x" :> source]

\* Descriptors with any number of the four sources populated.
SourceDescriptors ==
    {YAML(pp, pj, tp, tk) :
        pp \in {NilMap, MapOf("p1" :> SourcePackage("", "project.packages"))},
        pj \in {EmptyPackage, SourcePackage("p1", "project.package")},
        tp \in {NilMap, MapOf(EmptyMap), MapOf("p1" :> SourcePackage("", "packages"))},
        tk \in {EmptyPackage, SourcePackage("p1", "package")}}

\* No call of WebAction is modelled.
IdleWeb ==
    /\ webAnnotations = NilMap
    /\ webFetch = FALSE
    /\ webCalls = <<>>

\* No call of ComposeActions is modelled.
IdleCompose ==
    /\ cpc = "idle"
    /\ actionMap = EmptyMap
    /\ flags = [Strict |-> FALSE, Managed |-> FALSE]
    /\ fs = {}
    /\ unvisited = {}
    /\ s1 = <<>>
    /\ ext = <<>>
    /\ deferred = <<>>
    /\ trail = <<>>
    /\ composeResult = NilMap
    /\ composeErr = NoError

\* No compose-all entry point is called.
IdleAll ==
    /\ apc = "idle"
    /\ entry = ""
    /\ maniDoc = EmptyMap
    /\ allFlags = [Strict |-> FALSE, Managed |-> FALSE]
    /\ selected = ""
    /\ manifestPackages = EmptyMap
    /\ pending = {}
    /\ aggregate = EmptyMap
    /\ composedLog = <<>>
    /\ allResult = NilMap
    /\ allErr = NoError

-----------------------------------------------------------------------------
(* deploymentreader.go: BindAssets as a state machine *)

InitBind ==
    /\ pc = "BindAssets"
    /\ \E inputs \in DeploymentInputChoices,
          annots \in SubMaps(DeploymentAnnotations) \ {EmptyMap} :
          descriptor \in PackagesDescriptors(inputs, annots) \cup SourceDescriptors
    /\ \E comp \in ComposedNames, withAction, withTrigger \in BOOLEAN,
          entity \in ManifestEntities :
          deployment = ComposedSet(comp, withAction, withTrigger, entity)
    /\ composed0 = deployment
    /\ packMap = EmptyMap
    /\ todo = {}
    /\ visited = <<>>
    /\ err = NoError
    /\ IdleWeb
    /\ IdleCompose
    /\ IdleAll

\* BindAssets calls bindPackageInputsAndAnnotations, which resolves packMap.
StartPackages ==
    /\ pc = "BindAssets"
    /\ pc' = "package"
    /\ packMap' = ResolvePackMap(descriptor)
    /\ todo' = DOMAIN packMap'
    /\ UNCHANGED <<descriptor, deployment, composed0, visited, err>>
    /\ UNCHANGED <<webVars, composeVars, allVars>>

\* One iteration of the package loop.
BindPackage ==
    /\ pc = "package"
    /\ \E packName \in todo :
          /\ visited' = Append(visited, <<"package", packName>>)
          /\ IF packName \notin DOMAIN deployment.Packages
             THEN /\ todo' = PackageMismatch(todo \ {packName})
                  /\ UNCHANGED <<pc, deployment, err>>
             ELSE \E io \in Perms(DOMAIN packMap[packName].Inputs),
                     ao \in Perms(DOMAIN packMap[packName].Annotations) :
                     LET r == BindPackageBody(deployment, packMap[packName], io, ao)
                     IN  /\ deployment' = r.deployment
                         /\ err' = r.err
                         /\ pc' = IF r.err # NoError THEN "done" ELSE pc
                         /\ todo' = todo \ {packName}
    /\ UNCHANGED <<descriptor, composed0, packMap>>
    /\ UNCHANGED <<webVars, composeVars, allVars>>

\* bindPackageInputsAndAnnotations returned nil: bindActionInputsAndAnnotations.
StartActions ==
    /\ pc = "package"
    /\ todo = {}
    /\ pc' = "action"
    /\ packMap' = ResolvePackMap(descriptor)
    /\ todo' = DOMAIN packMap'
    /\ UNCHANGED <<descriptor, deployment, composed0, visited, err>>
    /\ UNCHANGED <<webVars, composeVars, allVars>>

\* One iteration of the package loop of the action merge.
BindActions ==
    /\ pc = "action"
    /\ \E packName \in todo :
          /\ visited' = Append(visited, <<"action", packName>>)
          /\ IF packName \notin DOMAIN deployment.Packages
             THEN /\ todo' = ActionMismatch(todo \ {packName})
                  /\ UNCHANGED <<pc, deployment, err>>
             ELSE \E order \in Perms(DOMAIN packMap[packName].Actions),
                     ios \in OrdersFor(packMap[packName].Actions, "Inputs"),
                     aos \in OrdersFor(packMap[packName].Actions, "Annotations") :
                     LET r == BindActionsBody(deployment, packName,
                                              packMap[packName].Actions, order, ios, aos)
                     IN  /\ deployment' = r.deployment
                         /\ err' = r.err
                         /\ pc' = IF r.err # NoError THEN "done" ELSE pc
                         /\ todo' = todo \ {packName}
    /\ UNCHANGED <<descriptor, composed0, packMap>>
    /\ UNCHANGED <<webVars, composeVars, allVars>>

\* bindActionInputsAndAnnotations returned nil: bindTriggerInputsAndAnnotations.
StartTriggers ==
    /\ pc = "action"
    /\ todo = {}
    /\ pc' = "trigger"
    /\ packMap' = ResolvePackMap(descriptor)
    /\ todo' = DOMAIN packMap'
    /\ UNCHANGED <<descriptor, deployment, composed0, visited, err>>
    /\ UNCHANGED <<webVars, composeVars, allVars>>

\* One iteration of the package loop of the trigger merge.
BindTriggers ==
    /\ pc = "trigger"
    /\ \E packName \in todo :
          /\ visited' = Append(visited, <<"trigger", packName>>)
          /\ \E order \in Perms(DOMAIN packMap[packName].Triggers),
                ios \in OrdersFor(packMap[packName].Triggers, "Inputs"),
                aos \in OrdersFor(packMap[packName].Triggers, "Annotations") :
                LET r == BindTriggersBody(deployment, packMap[packName].Triggers,
                                          order, ios, aos)
                IN  /\ deployment' = r.deployment
                    /\ err' = r.err
                    /\ pc' = IF r.err # NoError THEN "done" ELSE pc
                    /\ todo' = todo \ {packName}
    /\ UNCHANGED <<descriptor, composed0, packMap>>
    /\ UNCHANGED <<webVars, composeVars, allVars>>

\* bindTriggerInputsAndAnnotations returned nil: BindAssets returns nil.
FinishBind ==
    /\ pc = "trigger"
    /\ todo = {}
    /\ pc' = "done"
    /\ UNCHANGED <<descriptor, deployment, composed0, packMap, todo, visited, err>>
    /\ UNCHANGED <<webVars, composeVars, allVars>>

NextBind ==
    \/ StartPackages
    \/ BindPackage
    \/ StartActions
    \/ BindActions
    \/ StartTriggers
    \/ BindTriggers
    \/ FinishBind

SpecBind == InitBind /\ [][NextBind]_vars

-----------------------------------------------------------------------------
(* Properties of BindAssets *)

Done == pc = "done"

\* The deployment packages BindAssets reads.
Declared == ResolvePackMap(descriptor)

\* The scan visited the deployment package n.
Visited(scan, n) == \E i \in DOMAIN visited : visited[i] = <<scan, n>>

\* The scan visited n and the iteration over n returned no error.
Completed(scan, n) ==
    \E i \in DOMAIN visited :
        visited[i] = <<scan, n>> /\ ~(i = Len(visited) /\ err # NoError)

\* result is one entry per deployment input, with the substituted deployment
\* value, followed by the parameters of params the deployment does not declare.
IsOverrideMerge(result, inputs, params) ==
    LET n == Cardinality(DOMAIN inputs)
        kept == SelectSeq(params, LAMBDA kv : kv.Key \notin DOMAIN inputs)
    IN  /\ Len(result) = n + Len(kept)
        /\ {result[i].Key : i \in 1..n} = DOMAIN inputs
        /\ \A i \in 1..n : result[i].Value = GetEnvVar(inputs[result[i].Key])
        /\ SubSeq(result, n + 1, Len(result)) = kept

\* The deployment entities that have a counterpart in the composed entity
\* set, each with that counterpart as composed and as it is now:
\* [level, pack, name, override, before, now].
Counterparts ==
    {[level |-> "package", pack |-> n, name |-> n,
      override |-> [Inputs |-> Declared[n].Inputs,
                    Annotations |-> Declared[n].Annotations],
      before |-> composed0.Packages[n].Package,
      now |-> deployment.Packages[n].Package] :
        n \in DOMAIN Declared \cap DOMAIN composed0.Packages}
    \cup UNION {
        {[level |-> "action", pack |-> n, name |-> a,
          override |-> Declared[n].Actions[a],
          before |-> composed0.Packages[n].Actions[a],
          now |-> deployment.Packages[n].Actions[a]] :
            a \in DOMAIN Declared[n].Actions \cap DOMAIN composed0.Packages[n].Actions} :
        n \in DOMAIN Declared \cap DOMAIN composed0.Packages}
    \cup UNION {
        {[level |-> "trigger", pack |-> n, name |-> t,
          override |-> Declared[n].Triggers[t],
          before |-> composed0.Triggers[t],
          now |-> deployment.Triggers[t]] :
            t \in DOMAIN Declared[n].Triggers \cap DOMAIN composed0.Triggers} :
        n \in DOMAIN Declared}

\* The trigger of c is declared by no other deployment package.
DeclaredOnce(c) ==
    \A n \in DOMAIN Declared : c.name \in DOMAIN Declared[n].Triggers => n = c.pack

\* The merge of the inputs of c has run.
InputsMerged(c) ==
    CASE c.level = "package" -> Visited("package", c.pack)
      [] c.level = "action"  -> Completed("action", c.pack)
      [] c.level = "trigger" -> Completed("trigger", c.pack)

\* The merge of c has not begun.
NotReached(c) == ~Visited(c.level, c.pack)

\* C1 as stated: after BindAssets, every package, action and trigger that the
\* deployment descriptor names, that the composed entity set holds and that
\* declares an input has the deployment inputs followed by the manifest
\* parameters the deployment does not declare.
C1_InputMergeAlways ==
    Done =>
        \A c \in Counterparts :
            DOMAIN c.override.Inputs # {} =>
                IsOverrideMerge(c.now.Parameters, c.override.Inputs, c.before.Parameters)

\* C1 as amended: the parameter list of such an entity (a trigger: one that a
\* single deployment package declares) is the deployment inputs followed by
\* the manifest parameters the deployment does not declare once its merge has
\* run, and is the manifest parameter list while the scan has not reached it.
C1_InputMergeWhenReached ==
    \A c \in Counterparts :
        (DOMAIN c.override.Inputs # {} /\ DeclaredOnce(c)) =>
            /\ InputsMerged(c) =>
                  IsOverrideMerge(c.now.Parameters, c.override.Inputs,
                                  c.before.Parameters)
            /\ NotReached(c) => c.now.Parameters = c.before.Parameters

\* A package whose merge overrode nothing, added the key "w" with the value
\* of the environment variable and kept the manifest's "y" and "x" in order.
C1_Witness ==
    /\ Done
    /\ \E c \in Counterparts :
          /\ c.level = "package"
          /\ InputsMerged(c)
          /\ c.before.Parameters = <<KV("y", "2"), KV("x", "1")>>
          /\ c.now.Parameters = <<KV("w", EnvValue), KV("y", "2"), KV("x", "1")>>

\* The two lists have the same keys at the same places.
SameKeys(l1, l2) ==
    /\ Len(l1) = Len(l2)
    /\ \A i \in DOMAIN l1 : l1[i].Key = l2[i].Key

\* The value of the first entry of list with key k.
ValueOf(list, k) == list[Min({i \in DOMAIN list : list[i].Key = k})].Value

\* C2 as stated: after BindAssets, every annotation key k a deployment entity
\* declares for an entity of the composed set is overwritten in place when
\* the manifest annotations hold k, and otherwise BindAssets failed with a
\* YAML file-format error naming k and the deployment file, adding no k.
C2_AnnotationMergeAlways ==
    Done =>
        \A c \in Counterparts : \A k \in DOMAIN c.override.Annotations :
            IF k \in KeysOf(c.before.Annotations)
            THEN /\ SameKeys(c.now.Annotations, c.before.Annotations)
                 /\ ValueOf(c.now.Annotations, k) = c.override.Annotations[k]
            ELSE /\ err = [kind |-> "YAMLFileFormatError", key |-> k,
                           file |-> DeploymentFile]
                 /\ k \notin KeysOf(c.now.Annotations)

\* C2 as amended: the merge never changes the length, the keys or the order
\* of an annotation list (no key is added); when the merge of an entity ran
\* to its end, every key it declares is a manifest key and carries the
\* deployment value (a trigger: one that a single deployment package
\* declares); and an error of BindAssets is a YAML file-format error for the
\* deployment file that names a declared key absent from the manifest
\* annotations of an entity of the package visited last.
C2_AnnotationMergeWhenReached ==
    /\ \A c \in Counterparts : SameKeys(c.now.Annotations, c.before.Annotations)
    /\ \A c \in Counterparts : \A k \in DOMAIN c.override.Annotations :
          (Completed(c.level, c.pack) /\ DeclaredOnce(c)) =>
              /\ k \in KeysOf(c.before.Annotations)
              /\ ValueOf(c.now.Annotations, k) = c.override.Annotations[k]
    /\ err # NoError =>
          /\ err.kind = "YAMLFileFormatError"
          /\ err.file = DeploymentFile
          /\ \E c \in Counterparts :
                /\ <<c.level, c.pack>> = visited[Len(visited)]
                /\ err.key \in DOMAIN c.override.Annotations
                /\ err.key \notin KeysOf(c.before.Annotations)

\* BindAssets failed on the key "c" after it had overwritten the value of
\* "a" of the same entity.
C2_Witness ==
    /\ Done
    /\ err = [kind |-> "YAMLFileFormatError", key |-> "c", file |-> DeploymentFile]
    /\ \E c \in Counterparts :
          /\ <<c.level, c.pack>> = visited[Len(visited)]
          /\ "a" \in KeysOf(c.before.Annotations)
          /\ ValueOf(c.before.Annotations, "a") = "1"
          /\ ValueOf(c.now.Annotations, "a") = "5"

\* The scan visited an unmatched deployment package at place i.
MismatchAt(i) ==
    /\ visited[i][1] \in {"package", "action"}
    /\ visited[i][2] \notin DOMAIN composed0.Packages

\* This step is an iteration of a package loop over an unmatched package.
MismatchStep ==
    /\ Len(visited') = Len(visited) + 1
    /\ visited'[Len(visited')][1] \in {"package", "action"}
    /\ visited'[Len(visited')][2] \notin DOMAIN composed0.Packages

\* C3: in the package scan and in the action scan, the iteration over a
\* deployment package without a composed package ends the scan: the scan
\* visits no package after it, a package the scan did not visit keeps its
\* manifest parameters and annotations (its actions keep theirs), and the
\* iteration itself changes no entity and returns no error.
C3_MismatchEndsScan ==
    /\ [](/\ \A i, j \in DOMAIN visited :
                (MismatchAt(i) /\ j > i) => visited[j][1] # visited[i][1]
          /\ \A n \in DOMAIN composed0.Packages :
                /\ ~Visited("package", n) =>
                      deployment.Packages[n].Package = composed0.Packages[n].Package
                /\ ~Visited("action", n) =>
                      deployment.Packages[n].Actions = composed0.Packages[n].Actions)
    /\ [][MismatchStep =>
             /\ deployment' = deployment
             /\ err' = NoError
             /\ pc' = pc
             /\ todo' = {}]_vars

\* The package scan overrode p1, then met the unmatched p2 and stopped; the
\* override of p1 is still in place when BindAssets returns nil.
C3_Witness ==
    /\ Done
    /\ err = NoError
    /\ "p2" \notin DOMAIN composed0.Packages
    /\ \E i, j \in DOMAIN visited :
          /\ i < j
          /\ visited[i] = <<"package", "p1">>
          /\ visited[j] = <<"package", "p2">>
    /\ deployment.Packages["p1"].Package # composed0.Packages["p1"].Package

\* The sources of a descriptor the aggregator precedence ranks.
PopulatedSources(yaml) ==
    {"package" : x \in {1} \cap (IF yaml.Package.Packagename # "" THEN {1} ELSE {})}
    \cup {"packages" : x \in {1} \cap (IF DOMAIN yaml.Packages.m # {} THEN {1} ELSE {})}
    \cup {"project" : x \in {1} \cap
             (IF DOMAIN GetProject(yaml).Packages.m # {} THEN {1} ELSE {})}

\* C4: for a deployment descriptor with more than one of the sources
\* populated, the package map the merger reads is the one the precedence of
\* the manifest aggregators selects.
C4_SamePrecedence ==
    (pc # "BindAssets" /\ Cardinality(PopulatedSources(descriptor)) > 1) =>
        packMap = NamedPackages(AuthoritativePackages(descriptor))

-----------------------------------------------------------------------------
(* utils/webaction.go: WebAction *)

\* No call of BindAssets is modelled.
IdleBind ==
    /\ pc = "idle"
    /\ descriptor = NoOverride
    /\ deployment = EmptyMap
    /\ composed0 = EmptyMap
    /\ packMap = EmptyMap
    /\ todo = {}
    /\ visited = <<>>
    /\ err = NoError

WEB_EXPORT_ANNOT == "web-export"
RAW_HTTP_ANNOT == "raw-http"
FINAL_ANNOT == "final"

\* The Go values true and false stored in a KeyValue (never equal to a string
\* an annotation of the manifest holds).
BoolTrue == "bool:true"
BoolFalse == "bool:false"

\* A whisk.KeyValueArr: nil or a (possibly empty) slice.
NilArr == [isNil |-> TRUE, m |-> <<>>]

ArrOf(list) == [isNil |-> FALSE, m |-> list]

\* A Go string is the sequence of its characters.  The lower-case letter of
\* every upper-case letter of the ASCII alphabet (the characters of the
\* model are ASCII).
LowerCase ==
    ("A" :> "a") @@ ("B" :> "b") @@ ("C" :> "c") @@ ("D" :> "d") @@ ("E" :> "e") @@ ("F" :> "f")
    @@ ("G" :> "g") @@ ("H" :> "h") @@ ("I" :> "i") @@ ("J" :> "j") @@ ("K" :> "k") @@ ("L" :> "l")
    @@ ("M" :> "m") @@ ("N" :> "n") @@ ("O" :> "o") @@ ("P" :> "p") @@ ("Q" :> "q") @@ ("R" :> "r")
    @@ ("S" :> "s") @@ ("T" :> "t") @@ ("U" :> "u") @@ ("V" :> "v") @@ ("W" :> "w") @@ ("X" :> "x")
    @@ ("Y" :> "y") @@ ("Z" :> "z")

\* strings.ToLower: every upper-case letter is replaced by its lower-case one.
ToLower(str) ==
    [i \in DOMAIN str |-> IF str[i] \in DOMAIN LowerCase THEN LowerCase[str[i]] ELSE str[i]]

NoWebError == [failed |-> FALSE, msg |-> <<>>]

\* errors.New(text)
NewError(text) == [failed |-> TRUE, msg |-> text]

RECURSIVE DeleteAll(_, _)
DeleteAll(key, list) ==
    IF list = <<>> THEN <<>>
    ELSE IF Head(list).Key = key THEN DeleteAll(key, Tail(list))
    ELSE <<Head(list)>> \o DeleteAll(key, Tail(list))

\* deleteKey: the list without the entry of the key.
deleteKey(key, annotations) ==
    IF annotations.isNil THEN annotations ELSE ArrOf(DeleteAll(key, annotations.m))

\* addKeyValue: the list with the entry {key, value} appended.
addKeyValue(key, value, annotations) == ArrOf(Append(annotations.m, KV(key, value)))

\* A variant that leaves the final key in place.
deleteWebAnnotationKeysButFinal(annotations) ==
    deleteKey(RAW_HTTP_ANNOT, deleteKey(WEB_EXPORT_ANNOT, annotations))

deleteWebAnnotationKeys(annotations) ==
    deleteKey(FINAL_ANNOT, deleteKey(RAW_HTTP_ANNOT, deleteKey(WEB_EXPORT_ANNOT, annotations)))

addWebAnnotations(annotations) ==
    addKeyValue(FINAL_ANNOT, BoolTrue,
        addKeyValue(RAW_HTTP_ANNOT, BoolFalse,
            addKeyValue(WEB_EXPORT_ANNOT, BoolTrue, deleteWebAnnotationKeys(annotations))))

\* A variant that appends the three entries without stripping the keys.
deleteWebAnnotationsAppendOnly(annotations) ==
    addKeyValue(FINAL_ANNOT, BoolFalse,
        addKeyValue(RAW_HTTP_ANNOT, BoolFalse,
            addKeyValue(WEB_EXPORT_ANNOT, BoolFalse, annotations)))

deleteWebAnnotations(annotations) ==
    addKeyValue(FINAL_ANNOT, BoolFalse,
        addKeyValue(RAW_HTTP_ANNOT, BoolFalse,
            addKeyValue(WEB_EXPORT_ANNOT, BoolFalse, deleteWebAnnotationKeys(annotations))))

addRawAnnotations(annotations) ==
    addKeyValue(FINAL_ANNOT, BoolTrue,
        addKeyValue(RAW_HTTP_ANNOT, BoolTrue,
            addKeyValue(WEB_EXPORT_ANNOT, BoolTrue, deleteWebAnnotationKeys(annotations))))

\* webActionAnnotations, the method given by its name.
webActionAnnotations(fetchAnnotations, annotations, method) ==
    [annotations |->
        IF ~annotations.isNil \/ ~fetchAnnotations
        THEN CASE method = "addWebAnnotations" -> addWebAnnotations(annotations)
               [] method = "deleteWebAnnotations" -> deleteWebAnnotations(annotations)
               [] method = "addRawAnnotations" -> addRawAnnotations(annotations)
        ELSE annotations,
     err |-> NoWebError]

WebAction(webMode, annotations, fetch) ==
    LET mode == ToLower(webMode) IN
    CASE mode = <<"y", "e", "s">> \/ mode = <<"t", "r", "u", "e">> ->
            webActionAnnotations(fetch, annotations, "addWebAnnotations")
      [] mode = <<"n", "o">> \/ mode = <<"f", "a", "l", "s", "e">> ->
            webActionAnnotations(fetch, annotations, "deleteWebAnnotations")
      [] mode = <<"r", "a", "w">> ->
            webActionAnnotations(fetch, annotations, "addRawAnnotations")
      [] OTHER -> [annotations |-> NilArr, err |-> NewError(webMode)]

\* The calls the model makes.
MaxAnnotations == 3
MaxWebCalls == 2

WebModes ==
    { <<"y", "e", "s">>, <<"Y", "e", "s">>, <<"Y", "E", "S">>,
      <<"t", "r", "u", "e">>, <<"T", "R", "U", "E">>,
      <<"n", "o">>, <<"N", "o">>,
      <<"f", "a", "l", "s", "e">>, <<"F", "a", "l", "s", "e">>,
      <<"r", "a", "w">>, <<"R", "A", "W">>,
      <<>>, <<"y">>, <<"O", "N">> }

\* The value an annotation of the given list holds under each key.
GivenAnnotationValue ==
    [k \in {WEB_EXPORT_ANNOT, RAW_HTTP_ANNOT, FINAL_ANNOT, "a", "b"} |->
        CASE k = WEB_EXPORT_ANNOT -> BoolFalse
          [] k = RAW_HTTP_ANNOT -> BoolTrue
          [] k = FINAL_ANNOT -> BoolFalse
          [] k = "a" -> "1"
          [] k = "b" -> "true"]

\* The annotation lists a call is given: nil, or a list the composers build
\* from a map (no key twice), in any order.
WebAnnotationLists ==
    {NilArr} \cup
    {ArrOf([i \in DOMAIN keys |-> KV(keys[i], GivenAnnotationValue[keys[i]])]) :
        keys \in InjSeqs(DOMAIN GivenAnnotationValue, MaxAnnotations)}

InitWeb ==
    /\ IdleBind
    /\ IdleCompose
    /\ IdleAll
    /\ webAnnotations \in WebAnnotationLists
    /\ webFetch \in BOOLEAN
    /\ webCalls = <<>>

\* One call of WebAction; a later call is given the list this one returned.
CallWebAction ==
    /\ Len(webCalls) < MaxWebCalls
    /\ \E webMode \in WebModes :
          LET r == WebAction(webMode, webAnnotations, webFetch) IN
          /\ webCalls' = Append(webCalls, [mode |-> webMode, given |-> webAnnotations,
                                           result |-> r.annotations, err |-> r.err])
          /\ webAnnotations' = IF r.err.failed THEN webAnnotations ELSE r.annotations
    /\ UNCHANGED webFetch
    /\ UNCHANGED <<bindVars, composeVars, allVars>>

NextWeb == CallWebAction

SpecWeb == InitWeb /\ [][NextWeb]_vars

-----------------------------------------------------------------------------
(* Properties of WebAction *)

WebKeys == {WEB_EXPORT_ANNOT, RAW_HTTP_ANNOT, FINAL_ANNOT}

\* str is the word in some letter case.
EqualFold(str, word) ==
    /\ Len(str) = Len(word)
    /\ \A i \in DOMAIN str :
          \/ str[i] = word[i]
          \/ str[i] \in DOMAIN LowerCase /\ LowerCase[str[i]] = word[i]

\* The values of (web-export, raw-http, final) the mode asks for; <<>> for a
\* mode that is none of yes, true, no, false, raw.
WebTriple(mode) ==
    IF EqualFold(mode, <<"y", "e", "s">>) \/ EqualFold(mode, <<"t", "r", "u", "e">>)
    THEN <<BoolTrue, BoolFalse, BoolTrue>>
    ELSE IF EqualFold(mode, <<"n", "o">>) \/ EqualFold(mode, <<"f", "a", "l", "s", "e">>)
    THEN <<BoolFalse, BoolFalse, BoolFalse>>
    ELSE IF EqualFold(mode, <<"r", "a", "w">>)
    THEN <<BoolTrue, BoolTrue, BoolTrue>>
    ELSE <<>>

Occurrences(key, list) == {i \in DOMAIN list : list[i].Key = key}

IsOtherAnnotation(e) == e.Key \notin WebKeys

OtherAnnotationsOf(list) == SelectSeq(list, IsOtherAnnotation)

HasExactly(list, key, value) ==
    /\ Cardinality(Occurrences(key, list)) = 1
    /\ \A i \in Occurrences(key, list) : list[i].Value = value

\* C10: every call of WebAction with a mode that is yes, true, no, false or
\* raw in some letter case, given a non-nil list or a false fetch flag,
\* returns without error a list that holds each of web-export, raw-http and
\* final exactly once, with the values of the mode, and holds the given
\* annotations of every other key unchanged and in their order; every call
\* with another mode returns an error whose text is the mode as given, and a
\* nil list.
C10_WebExportShaping ==
    \A i \in DOMAIN webCalls :
        LET c == webCalls[i]
            triple == WebTriple(c.mode)
        IN  /\ (triple # <<>> /\ (~c.given.isNil \/ ~webFetch)) =>
                  /\ ~c.err.failed
                  /\ ~c.result.isNil
                  /\ HasExactly(c.result.m, WEB_EXPORT_ANNOT, triple[1])
                  /\ HasExactly(c.result.m, RAW_HTTP_ANNOT, triple[2])
                  /\ HasExactly(c.result.m, FINAL_ANNOT, triple[3])
                  /\ OtherAnnotationsOf(c.result.m) = OtherAnnotationsOf(c.given.m)
            /\ triple = <<>> =>
                  /\ c.err = NewError(c.mode)
                  /\ c.result = NilArr

\* A call in upper case was given a list holding a web key and another key,
\* and a call with a mode outside the five was made.
C10_Witness ==
    /\ \E i \in DOMAIN webCalls :
          /\ webCalls[i].mode = <<"R", "A", "W">>
          /\ \E j, k \in DOMAIN webCalls[i].given.m :
                /\ webCalls[i].given.m[j].Key = RAW_HTTP_ANNOT
                /\ webCalls[i].given.m[k].Key = "a"
                /\ j < k
          /\ Len(webCalls[i].result.m) = Len(webCalls[i].given.m) + 2
    /\ \E i \in DOMAIN webCalls :
          /\ webCalls[i].mode = <<"O", "N">>
          /\ webCalls[i].err.failed


\* The mode is one of yes, true, no, false, raw in some letter case.
IsValidMode(mode) == WebTriple(mode) # <<>>

\* C11: when WebAction is called with a valid mode on the list a call with
\* the same mode returned, it returns that same list again; and when a call
\* with a mode no or false is given the list a call with yes or true
\* returned (a list that the call shapes: non-nil, or the fetch flag false),
\* the returned list holds each of web-export, raw-http and final exactly
\* once, with the value false.
C11_WebExportIdempotence ==
    \A i \in DOMAIN webCalls : \A j \in DOMAIN webCalls :
        LET c == webCalls[i]
            d == webCalls[j]
        IN  (j = i + 1 /\ IsValidMode(c.mode) /\ IsValidMode(d.mode)) =>
               /\ d.given = c.result
               /\ d.mode = c.mode => (d.result = c.result /\ ~d.err.failed)
               /\ (WebTriple(c.mode) = <<BoolTrue, BoolFalse, BoolTrue>>
                   /\ WebTriple(d.mode) = <<BoolFalse, BoolFalse, BoolFalse>>
                   /\ (~c.given.isNil \/ ~webFetch)) =>
                     \A k \in WebKeys : HasExactly(d.result.m, k, BoolFalse)

\* The mode raw was applied twice, the first time to a list that held a
\* stale web key before another annotation.
C11_Witness ==
    /\ Len(webCalls) = 2
    /\ webCalls[1].mode = <<"r", "a", "w">>
    /\ webCalls[2].mode = <<"r", "a", "w">>
    /\ Len(webCalls[1].given.m) = 2
    /\ webCalls[1].given.m[1].Key = FINAL_ANNOT
    /\ webCalls[1].given.m[2].Key = "a"
    /\ webCalls[2].given # webCalls[1].given
    /\ webCalls[2].result = webCalls[1].result

-----------------------------------------------------------------------------
(* manifest_parser.go: ComposeActions.  The manifest lies in the working     *)
(* directory, so that the path of a function is the declared function.     *)

\* Go's zero value of a map lookup: "" for a key that has no entry.
Lookup(table, key) == IF key \in DOMAIN table THEN table[key] ELSE ""

Max(S) == CHOOSE x \in S : \A y \in S : x >= y

ZIP_FILE_EXTENSION == <<"z", "i", "p">>
JAR_FILE_EXTENSION == <<"j", "a", "r">>

\* utils.FileExtensionRuntimeKindMap: file extension -> runtime family.
FileExtensionRuntimeKindMap ==
    (<<"j", "s">> :> "nodejs") @@ (<<"p", "y">> :> "python") @@ (JAR_FILE_EXTENSION :> "java")

\* utils.DefaultRunTimes: runtime family -> its default kind.  The family ""
\* (an extension without entry) has no default.
DefaultRunTimes == [nodejs |-> "nodejs:6", python |-> "python:3", java |-> "java"]

\* utils.SupportedRunTimes: runtime family -> the kinds the server supports.
SupportedRunTimes ==
    [nodejs |-> {"nodejs:6", "nodejs:8"}, python |-> {"python:3"}, java |-> {"java"}]

\* utils.CheckExistRuntime(rtname, utils.SupportedRunTimes)
CheckExistRuntime(rtname) == \E family \in DOMAIN SupportedRunTimes : rtname \in SupportedRunTimes[family]

\* utils.CheckRuntimeConsistencyWithFileExtension: the runtime is one of the
\* kinds supported for the family of the extension.
CheckRuntimeConsistencyWithFileExtension(extension, runtime) ==
    LET family == Lookup(FileExtensionRuntimeKindMap, extension)
    IN  family \in DOMAIN SupportedRunTimes /\ runtime \in SupportedRunTimes[family]

\* path.Ext: the suffix beginning at the final dot in the final
\* slash-separated element of the path, empty if there is no such dot.
PathExt(filePath) ==
    LET dots == {i \in DOMAIN filePath :
                    filePath[i] = "." /\ \A j \in DOMAIN filePath : j > i => filePath[j] # "/"}
    IN  IF dots = {} THEN <<>> ELSE SubSeq(filePath, Max(dots), Len(filePath))

\* Lines 470-474: the extension of the file without its leading dot.
DropDot(extension) ==
    IF Len(extension) > 0 /\ extension[1] = "." THEN Tail(extension) ELSE extension

\* A variant that yields the runtime family instead of its default kind.
InferKindFamily(extension) == Lookup(FileExtensionRuntimeKindMap, extension)

\* Lines 478-479: the default kind for the extension, "" if there is none.
InferKind(extension) == Lookup(DefaultRunTimes, Lookup(FileExtensionRuntimeKindMap, extension))

\* Errors of the composers; key is the entity the error is about.
ComposeError(kind, key) == [kind |-> kind, key |-> key, file |-> ""]

\* The parameters of the manifest: an inline value (a ${E} reference is
\* substituted), a declaration that resolves to nil, or a malformed one.
Parameter(value) == [Value |-> value, Malformed |-> FALSE]

MalformedParameter == [Value |-> Nil, Malformed |-> TRUE]

\* ResolveParameter: the concrete value, nil, or an error.
ResolveParameter(name, param) ==
    IF param.Malformed
    THEN [Value |-> Nil, err |-> ComposeError("ParameterTypeMismatchError", name)]
    ELSE [Value |-> GetEnvVar(param.Value), err |-> NoError]

\* whisk.Exec; Code is the file the code was read from and its encoding.
NoCode == [of |-> <<>>, enc |-> "none"]

Exec(kind, code) == [Kind |-> kind, Code |-> code, Main |-> ""]

\* utils.IsDirectory
Directories == {<<"d">>, <<"e">>}

IsDirectory(filePath) == filePath \in Directories

\* utils.GetExec(zipName, runtime, false, ""): loads the archive and takes
\* the kind from the declared runtime; a runtime error if none is declared.
GetExec(artifact, kind, files) ==
    IF artifact \notin files THEN [exec |-> Exec("", NoCode), err |-> ComposeError("FileReadError", "")]
    ELSE IF kind = "" THEN [exec |-> Exec("", NoCode), err |-> ComposeError("ZipKindError", "")]
    ELSE [exec |-> Exec(kind, [of |-> artifact, enc |-> "base64"]), err |-> NoError]

\* The locals of ComposeActions between two iterations, and the files.
Locals(records, extension, removals, files) ==
    [s1 |-> records, ext |-> extension, deferred |-> removals, fs |-> files]

\* An iteration that executes a return statement.
Return(result, error, loc) ==
    [returned |-> TRUE, result |-> result, err |-> error, loc |-> loc, exec |-> Exec("", NoCode)]

\* An iteration (or a part of it) that runs to its end.
Continue(loc, exec) ==
    [returned |-> FALSE, result |-> NilArr, err |-> NoError, loc |-> loc, exec |-> exec]

InvalidRuntimeError(key) == ComposeError("InvalidRuntimeError", key)

\* Line 484: no kind derived, no runtime declared, and not a zip file.
RuntimeMissing(kind, runtime, extension) ==
    kind = "" /\ runtime = "" /\ extension # ZIP_FILE_EXTENSION

\* A variant that lets a zip file without runtime pass.
ZipRuntimeMissingNever(extension, runtime) == FALSE

\* Line 501: a zip file without a declared runtime.
ZipRuntimeMissing(extension, runtime) ==
    extension = ZIP_FILE_EXTENSION /\ runtime = ""

\* Lines 470-507: the function is a single file.
FileFunction(loc, key, action) ==
    LET filePath == action.Function
        extension == DropDot(PathExt(filePath))
        kind == InferKind(extension)
        loc1 == [loc EXCEPT !.ext = extension]
    IN  IF RuntimeMissing(kind, action.Runtime, extension)
        THEN Return(NilArr, InvalidRuntimeError(key), loc1)
        ELSE IF filePath \notin loc.fs
        THEN Return(ArrOf(loc.s1), ComposeError("FileReadError", key), loc1)
        ELSE IF ZipRuntimeMissing(extension, action.Runtime)
        THEN Return(NilArr, InvalidRuntimeError(key), loc1)
        ELSE Continue(loc1,
                 Exec(kind, [of |-> filePath,
                             enc |-> IF extension = ZIP_FILE_EXTENSION \/ extension = JAR_FILE_EXTENSION
                                     THEN "base64" ELSE "plain"]))

\* Lines 455-468: the function is a directory.  zip is the outcome of
\* utils.NewZipWritter(filePath, zipName).Zip(): "ok", or a failure that
\* leaves no archive ("failed") or a partial one ("partial").
DirectoryFunction(loc, key, action, zip) ==
    LET zipName == action.Function \o <<".">> \o ZIP_FILE_EXTENSION
    IN  IF zip = "failed" THEN Return(NilArr, ComposeError("ZipError", key), loc)
        ELSE IF zip = "partial"
        THEN Return(NilArr, ComposeError("ZipError", key), [loc EXCEPT !.fs = @ \cup {zipName}])
        ELSE LET loc1 == [loc EXCEPT !.fs = @ \cup {zipName}, !.deferred = Append(@, zipName)]
                 g == GetExec(zipName, action.Runtime, loc1.fs)
             IN  IF g.err # NoError THEN Return(NilArr, g.err, loc1) ELSE Continue(loc1, g.exec)

\* Lines 446-509: Action.Function.
FunctionOf(loc, key, action, zip) ==
    IF action.Function = <<>> THEN Continue(loc, Exec("", NoCode))
    ELSE IF IsDirectory(action.Function) THEN DirectoryFunction(loc, key, action, zip)
    ELSE FileFunction(loc, key, action)

\* A variant that takes the declared runtime whenever it is supported.
ReconcileKindNotStrict(kind, extension, runtime, strict) ==
    IF runtime = "" THEN [Kind |-> kind, failed |-> FALSE]
    ELSE IF CheckExistRuntime(runtime) THEN [Kind |-> runtime, failed |-> FALSE]
    ELSE [Kind |-> kind, failed |-> extension = ZIP_FILE_EXTENSION]

\* Lines 518-558: Action.Runtime; failed stands for the InvalidRuntimeError
\* of line 550.
ReconcileKind(kind, extension, runtime, strict) ==
    IF runtime = "" THEN [Kind |-> kind, failed |-> FALSE]
    ELSE IF CheckExistRuntime(runtime)
    THEN IF extension = ZIP_FILE_EXTENSION THEN [Kind |-> runtime, failed |-> FALSE]
         ELSE IF CheckRuntimeConsistencyWithFileExtension(extension, runtime)
         THEN [Kind |-> runtime, failed |-> FALSE]
         ELSE IF strict THEN [Kind |-> runtime, failed |-> FALSE]
         ELSE [Kind |-> kind, failed |-> FALSE]
    ELSE IF extension = ZIP_FILE_EXTENSION THEN [Kind |-> kind, failed |-> TRUE]
    ELSE [Kind |-> kind, failed |-> FALSE]

\* The loops over inputs and outputs (lines 568-581, 591-605): the entries
\* resolved in the order of the iteration, nil values left out; the first
\* error ends the loop.
RECURSIVE ResolveAll(_, _)
ResolveAll(params, order) ==
    IF order = <<>> THEN [list |-> <<>>, err |-> NoError]
    ELSE LET name == Head(order)
             r == ResolveParameter(name, params[name])
         IN  IF r.err # NoError THEN [list |-> <<>>, err |-> r.err]
             ELSE LET rest == ResolveAll(params, Tail(order))
                  IN  IF rest.err # NoError THEN rest
                      ELSE [list |-> (IF r.Value # Nil THEN <<KV(name, r.Value)>> ELSE <<>>) \o rest.list,
                            err |-> NoError]

\* Lines 616-622: listOfAnnotations.
ListOfAnnotations(annotations, order) ==
    [i \in DOMAIN order |-> KV(order[i], GetEnvVar(annotations[order[i]]))]

\* A list as it is stored in an entity: nil when it holds nothing.
NonEmptyOrNil(list) == IF Len(list) > 0 THEN ArrOf(list) ELSE NilArr

\* utils.ActionRecord
ActionRecord(action, packageName, function) ==
    [Action |-> action, Packagename |-> packageName, Filepath |-> function]

\* Lines 432-689: one iteration of the loop of ComposeActions, for the action
\* declared under key.  env holds what the code does not determine: the
\* outcome of the zip writer and the orders of the loops over the maps of
\* the action.  The modelled actions declare no limits (lines 645-681).
ComposeAction(loc, key, declared, packageName, fl, ma, env) ==
    LET action == IF declared.Function = <<>> /\ declared.Location # <<>>
                  THEN [declared EXCEPT !.Function = declared.Location]
                  ELSE declared
        f == FunctionOf(loc, key, action, env.zip)
        kind == ReconcileKind(f.exec.Kind, f.loc.ext, action.Runtime, fl.Strict)
        exec == [f.exec EXCEPT !.Kind = kind.Kind,
                               !.Main = IF action.Main # "" THEN action.Main ELSE @]
        inputs == ResolveAll(action.Inputs, env.inputOrder)
        outputs == ResolveAll(action.Outputs, env.outputOrder)
        listOfAnnotations == ListOfAnnotations(action.Annotations, env.annotationOrder)
        declaredAnnotations == NonEmptyOrNil(listOfAnnotations)
        managedAnnotations == IF fl.Managed THEN ArrOf(Append(declaredAnnotations.m, ma))
                              ELSE declaredAnnotations
        web == IF action.Webexport = "true"
               THEN WebAction(<<"y", "e", "s">>, ArrOf(listOfAnnotations), FALSE)
               ELSE [annotations |-> managedAnnotations, err |-> NoWebError]
        wskaction == [Name |-> key, Exec |-> exec, Parameters |-> NonEmptyOrNil(inputs.list),
                      Annotations |-> web.annotations, Publish |-> FALSE]
        record == ActionRecord(wskaction, packageName, action.Function)
    IN  IF f.returned THEN f
        ELSE IF kind.failed THEN Return(NilArr, InvalidRuntimeError(key), f.loc)
        ELSE IF inputs.err # NoError THEN Return(NilArr, inputs.err, f.loc)
        ELSE IF outputs.err # NoError THEN Return(NilArr, outputs.err, f.loc)
        ELSE IF web.err.failed THEN Return(ArrOf(f.loc.s1), ComposeError("WebActionError", key), f.loc)
        ELSE Continue([f.loc EXCEPT !.s1 = Append(@, record)], exec)

\* The deferred os.Remove calls, run when ComposeActions returns.
RemoveDeferred(files, removals) == files \ {removals[i] : i \in DOMAIN removals}

\* What the code leaves open in an iteration for the action.
Environments(action) ==
    [zip : {"ok", "failed", "partial"},
     inputOrder : Perms(DOMAIN action.Inputs),
     outputOrder : Perms(DOMAIN action.Outputs),
     annotationOrder : Perms(DOMAIN action.Annotations)]

-----------------------------------------------------------------------------
(* The calls of ComposeActions the model makes *)

JsFile == <<"h", ".", "j", "s">>
PyFile == <<"h", ".", "p", "y">>
ZipFile == <<"h", ".", "z", "i", "p">>
JarFile == <<"h", ".", "j", "a", "r">>
TextFile == <<"h", ".", "t">>
PlainFile == <<"v", ".", "1", "/", "h">>
Directory == <<"d">>
OtherDirectory == <<"e">>

Files == {JsFile, PyFile, ZipFile, JarFile, TextFile, PlainFile}

\* The files that exist: all of them, or all but one.
FileSystems == {Files, Files \ {JsFile}, Files \ {ZipFile}}

Runtimes == {"", "nodejs:6", "nodejs:8", "python:3", "bogus"}

\* parsers.Action
Action(function, location, runtime, main, inputs, outputs, annotations, webexport) ==
    [Function |-> function, Location |-> location, Runtime |-> runtime, Main |-> main,
     Inputs |-> inputs, Outputs |-> outputs, Annotations |-> annotations,
     Webexport |-> webexport]

PlainAction(function, runtime) == Action(function, <<>>, runtime, "", <<>>, <<>>, <<>>, "")

InputMaps ==
    { <<>>,
      [n |-> Parameter("v")],
      [n |-> Parameter(EnvReference)],
      [n |-> Parameter(Nil)],
      [n |-> MalformedParameter],
      [n |-> Parameter("v"), o |-> Parameter(Nil)] }

AnnotationMaps ==
    { <<>>,
      [a |-> "1"],
      [a |-> EnvReference],
      ("a" :> "1") @@ (WEB_EXPORT_ANNOT :> "x"),
      [managed |-> "mine"] }

\* The managed annotation handed to the composers.
ManagedAnnotation == KV("managed", "m1")

\* Actions that differ in their function and runtime.
RuntimeVariants ==
    {PlainAction(f, r) : f \in Files \cup {Directory, <<>>}, r \in Runtimes}
    \cup {Action(<<>>, JsFile, "", "", <<>>, <<>>, <<>>, "")}

\* Actions that differ in what they declare besides.
PayloadVariants ==
    {Action(JsFile, <<>>, "", "", i, <<>>, a, w) :
        i \in InputMaps, a \in AnnotationMaps, w \in {"", "true", "yes"}}
    \cup {Action(JsFile, <<>>, "", "", <<>>, [r |-> MalformedParameter], <<>>, ""),
          Action(JsFile, <<>>, "", "main", <<>>, [r |-> Parameter("v")], <<>>, "")}

\* A second action of the same package.
SecondActions ==
    {PlainAction(f, r) : f \in {OtherDirectory, <<>>}, r \in {"", "nodejs:6", "bogus"}}
    \cup {PlainAction(JsFile, ""), PlainAction(ZipFile, "nodejs:6"), PlainAction(TextFile, "")}

ActionMaps ==
    {[k \in {"a1"} |-> a] : a \in RuntimeVariants \cup PayloadVariants}
    \cup {[k \in {"a1", "a2"} |-> IF k = "a1" THEN a ELSE b] :
            a \in RuntimeVariants \cup PayloadVariants, b \in SecondActions}

ComposedPackage == "p1"

InitCompose ==
    /\ IdleBind
    /\ IdleWeb
    /\ IdleAll
    /\ cpc = "loop"
    /\ actionMap \in ActionMaps
    /\ flags \in [Strict : BOOLEAN, Managed : BOOLEAN]
    /\ fs \in FileSystems
    /\ unvisited = DOMAIN actionMap
    /\ s1 = <<>>
    /\ ext = <<>>
    /\ deferred = <<>>
    /\ trail = <<>>
    /\ composeResult = NilArr
    /\ composeErr = NoError

\* One iteration of the range loop, with the return it may execute.
ComposeActionStep ==
    /\ cpc = "loop"
    /\ \E key \in unvisited : \E env \in Environments(actionMap[key]) :
          LET r == ComposeAction(Locals(s1, ext, deferred, fs), key, actionMap[key],
                                 ComposedPackage, flags, ManagedAnnotation, env)
          IN  /\ unvisited' = unvisited \ {key}
              /\ trail' = Append(trail, [key |-> key, ext |-> ext, err |-> r.err])
              /\ s1' = r.loc.s1
              /\ ext' = r.loc.ext
              /\ deferred' = r.loc.deferred
              /\ fs' = IF r.returned THEN RemoveDeferred(r.loc.fs, r.loc.deferred) ELSE r.loc.fs
              /\ cpc' = IF r.returned THEN "returned" ELSE "loop"
              /\ composeResult' = r.result
              /\ composeErr' = r.err
    /\ UNCHANGED <<actionMap, flags>>
    /\ UNCHANGED <<bindVars, webVars, allVars>>

\* Line 691: the loop has visited every action.
ReturnActions ==
    /\ cpc = "loop"
    /\ unvisited = {}
    /\ cpc' = "returned"
    /\ composeResult' = ArrOf(s1)
    /\ composeErr' = NoError
    /\ fs' = RemoveDeferred(fs, deferred)
    /\ UNCHANGED <<actionMap, flags, unvisited, s1, ext, deferred, trail>>
    /\ UNCHANGED <<bindVars, webVars, allVars>>

NextCompose == ComposeActionStep \/ ReturnActions

SpecCompose == InitCompose /\ [][NextCompose]_vars

-----------------------------------------------------------------------------
(* Properties of ComposeActions: the runtime of an action *)

\* The extension of each modelled file, as one reads it off the name.
ExtensionOf ==
    (JsFile :> <<"j", "s">>) @@ (PyFile :> <<"p", "y">>) @@ (ZipFile :> <<"z", "i", "p">>)
    @@ (JarFile :> <<"j", "a", "r">>) @@ (TextFile :> <<"t">>) @@ (PlainFile :> <<>>)

\* The function of a declared action (the deprecated location stands in).
FunctionPath(a) == IF a.Function # <<>> THEN a.Function ELSE a.Location

IsSingleFile(a) == FunctionPath(a) \in Files

\* The kind the static tables give for the file of the action, "" if none.
TableKind(a) ==
    LET e == ExtensionOf[FunctionPath(a)]
    IN  IF e \in DOMAIN FileExtensionRuntimeKindMap
        THEN DefaultRunTimes[FileExtensionRuntimeKindMap[e]]
        ELSE ""

\* Nothing but the runtime can make the iteration fail: the file can be
\* read and every declared input and output is well formed.
Composable(a) ==
    /\ FunctionPath(a) \in fs
    /\ \A n \in DOMAIN a.Inputs : ~a.Inputs[n].Malformed
    /\ \A n \in DOMAIN a.Outputs : ~a.Outputs[n].Malformed

\* The i-th iteration appended a record of the given kind.
ComposedWithKind(i, kind) ==
    /\ trail[i].err = NoError
    /\ i \in DOMAIN s1
    /\ s1[i].Action.Name = trail[i].key
    /\ s1[i].Action.Exec.Kind = kind

\* The i-th iteration made ComposeActions return the InvalidRuntimeError.
FailedWithInvalidRuntime(i) ==
    /\ trail[i].err = InvalidRuntimeError(trail[i].key)
    /\ cpc = "returned"
    /\ composeErr = InvalidRuntimeError(trail[i].key)
    /\ composeResult = NilArr

\* C7: when the loop of ComposeActions has run for a single-file action
\* with no declared runtime, then (a) if the extension of the file has an
\* entry in the extension-to-runtime table, and the file can be read and the
\* inputs and outputs resolve, the iteration appended a record whose kind is
\* the default runtime of the table for the extension; (b) if the extension
\* has no entry and is not zip, ComposeActions returned InvalidRuntimeError.
C7_RuntimeInference ==
    \A i \in DOMAIN trail :
        LET a == actionMap[trail[i].key]
            e == ExtensionOf[FunctionPath(a)]
        IN  (IsSingleFile(a) /\ a.Runtime = "") =>
               /\ (e \in DOMAIN FileExtensionRuntimeKindMap /\ Composable(a)) =>
                     /\ TableKind(a) # ""
                     /\ ComposedWithKind(i, TableKind(a))
               /\ (e \notin DOMAIN FileExtensionRuntimeKindMap /\ e # ZIP_FILE_EXTENSION) =>
                     FailedWithInvalidRuntime(i)

\* A call composed a JavaScript file with the default kind of its extension
\* and then failed on a file whose extension has no entry.
C7_Witness ==
    /\ Len(trail) = 2
    /\ actionMap[trail[1].key] = PlainAction(JsFile, "")
    /\ ComposedWithKind(1, "nodejs:6")
    /\ actionMap[trail[2].key] = PlainAction(TextFile, "")
    /\ FailedWithInvalidRuntime(2)

\* The runtime is one of the kinds of the supported list.
IsSupported(runtime) == \E family \in DOMAIN SupportedRunTimes : runtime \in SupportedRunTimes[family]

IsZipAction(a) == FunctionPath(a) = ZipFile

\* C8: when the loop of ComposeActions has run for an action whose function
\* is a .zip file, then: with no declared runtime the call has failed, with
\* InvalidRuntimeError once the file was read; with a declared runtime of
\* the supported list (the file read, inputs and outputs resolved) the
\* iteration appended a record whose kind is the declared runtime; with a
\* declared runtime outside the supported list (the file read) the call
\* failed with InvalidRuntimeError.
C8_ArchiveActions ==
    \A i \in DOMAIN trail :
        LET a == actionMap[trail[i].key]
        IN  IsZipAction(a) =>
               /\ a.Runtime = "" =>
                     /\ trail[i].err # NoError
                     /\ cpc = "returned" /\ composeErr = trail[i].err
                     /\ ZipFile \in fs => FailedWithInvalidRuntime(i)
               /\ (a.Runtime # "" /\ IsSupported(a.Runtime) /\ Composable(a)) =>
                     ComposedWithKind(i, a.Runtime)
               /\ (a.Runtime # "" /\ ~IsSupported(a.Runtime) /\ ZipFile \in fs) =>
                     FailedWithInvalidRuntime(i)

\* A call composed a zip file with its declared runtime and then failed on
\* a zip file without runtime.
C8_Witness ==
    /\ Len(trail) = 2
    /\ actionMap[trail[1].key] = PlainAction(ZipFile, "nodejs:6")
    /\ ComposedWithKind(1, "nodejs:6")
    /\ actionMap[trail[2].key] = PlainAction(ZipFile, "")
    /\ FailedWithInvalidRuntime(2)

\* The runtime is one supported for the runtime family of the extension.
IsConsistent(runtime, extension) ==
    /\ extension \in DOMAIN FileExtensionRuntimeKindMap
    /\ runtime \in SupportedRunTimes[FileExtensionRuntimeKindMap[extension]]

\* C9: when the loop of ComposeActions has run for a single-file action
\* that is no zip file and declares a runtime (the file read, inputs and
\* outputs resolved), the iteration appended a record, and its kind is the
\* kind inferred from the extension if the runtime is not supported; the
\* declared runtime if it is supported and consistent with the extension;
\* and, if it is supported and inconsistent, the declared runtime exactly
\* when the strict flag is set, else the inferred kind.
C9_RuntimeReconciliation ==
    \A i \in DOMAIN trail :
        LET a == actionMap[trail[i].key]
            e == ExtensionOf[FunctionPath(a)]
        IN  (IsSingleFile(a) /\ ~IsZipAction(a) /\ a.Runtime # "" /\ Composable(a)) =>
               /\ ~IsSupported(a.Runtime) => ComposedWithKind(i, TableKind(a))
               /\ (IsSupported(a.Runtime) /\ IsConsistent(a.Runtime, e)) =>
                     ComposedWithKind(i, a.Runtime)
               /\ (IsSupported(a.Runtime) /\ ~IsConsistent(a.Runtime, e)) =>
                     /\ flags.Strict => ComposedWithKind(i, a.Runtime)
                     /\ ~flags.Strict => ComposedWithKind(i, TableKind(a))

\* Without the strict flag, a JavaScript file that declares a python runtime
\* was composed with the kind of its extension, before another action.
C9_Witness ==
    /\ ~flags.Strict
    /\ Len(trail) = 2
    /\ actionMap[trail[1].key] = PlainAction(JsFile, "python:3")
    /\ ComposedWithKind(1, "nodejs:6")
    /\ trail[2].err = NoError

-----------------------------------------------------------------------------
(* manifest_parser.go: the composers of the other manifest sections *)

\* The loop of ComposeActions as a whole (lines 432-691): the actions are
\* visited in the given order, envs gives the environment of each iteration.
RECURSIVE ComposeActionsFrom(_, _, _, _, _, _, _)
ComposeActionsFrom(loc, actions, order, envs, packageName, fl, ma) ==
    IF order = <<>>
    THEN [result |-> ArrOf(loc.s1), err |-> NoError, fs |-> RemoveDeferred(loc.fs, loc.deferred)]
    ELSE LET key == Head(order)
             r == ComposeAction(loc, key, actions[key], packageName, fl, ma, envs[key])
         IN  IF r.returned
             THEN [result |-> r.result, err |-> r.err,
                   fs |-> RemoveDeferred(r.loc.fs, r.loc.deferred)]
             ELSE ComposeActionsFrom(r.loc, actions, Tail(order), envs, packageName, fl, ma)

ComposeActions(actions, packageName, fl, ma, files, order, envs) ==
    ComposeActionsFrom(Locals(<<>>, <<>>, <<>>, files), actions, order, envs, packageName, fl, ma)

\* Lines 233-324: ComposePackage.  The defaults of version and license are
\* written to the local copy of the declaration only.
ComposePackage(pkg, packageName, fl, ma, inputOrder, annotationOrder) ==
    LET inputs == ResolveAll(pkg.Inputs, inputOrder)
        listOfAnnotations == ListOfAnnotations(pkg.Annotations, annotationOrder)
        declaredAnnotations == NonEmptyOrNil(listOfAnnotations)
        pag == [Name |-> packageName, Namespace |-> pkg.Namespace, Publish |-> FALSE,
                Parameters |-> NonEmptyOrNil(inputs.list),
                Annotations |-> IF fl.Managed
                                THEN ArrOf(Append(declaredAnnotations.m, ma))
                                ELSE declaredAnnotations]
    IN  IF inputs.err # NoError THEN [result |-> Nil, err |-> inputs.err]
        ELSE [result |-> pag, err |-> NoError]

YAML_VALUE_BRANCH_MASTER == "master"

\* utils.LocationIsBinding and utils.LocationIsGithub: a location is a
\* sequence of the parts "/", "https://", "http://" and host-and-path.
LocationIsBinding(location) ==
    \E i \in DOMAIN location : location[i] = "whisk.system/utils" /\ i <= 2

LocationIsGithub(location) ==
    \E i \in DOMAIN location : location[i] = "github.com/org/repo" /\ i <= 2

\* strings.HasPrefix for a prefix that is one part.
HasPrefixPart(location, part) == location # <<>> /\ Head(location) = part

\* Lines 136-194: one dependency of ComposeDependencies.
ComposeDependency(key, dependency, packageName, inputOrder, annotationOrder) ==
    LET version == IF dependency.Version = "" THEN YAML_VALUE_BRANCH_MASTER ELSE dependency.Version
        isBinding == LocationIsBinding(dependency.Location)
        location ==
            IF isBinding
            THEN IF ~HasPrefixPart(dependency.Location, "/")
                 THEN <<"/">> \o dependency.Location ELSE dependency.Location
            ELSE IF ~HasPrefixPart(dependency.Location, "https://")
                    /\ ~HasPrefixPart(dependency.Location, "http://")
                 THEN <<"https://">> \o dependency.Location ELSE dependency.Location
        inputs == ResolveAll(dependency.Inputs, inputOrder)
    IN  IF ~isBinding /\ ~LocationIsGithub(dependency.Location)
        THEN [result |-> Nil, err |-> ComposeError("UnknownDependencyType", key)]
        ELSE IF inputs.err # NoError THEN [result |-> Nil, err |-> inputs.err]
        ELSE [result |-> [ProjectPath |-> "Packages", Packagename |-> packageName,
                          Location |-> location, Version |-> version,
                          Parameters |-> inputs.list,
                          Annotations |-> ListOfAnnotations(dependency.Annotations, annotationOrder),
                          IsBinding |-> isBinding],
              err |-> NoError]

\* Lines 132-197: ComposeDependencies; the map depMap under the keys
\* packageName:key.  orders gives the orders of the loops over the inputs
\* and annotations of each dependency.
RECURSIVE ComposeDependenciesFrom(_, _, _, _, _)
ComposeDependenciesFrom(depMap, pkg, packageName, order, orders) ==
    IF order = <<>> THEN [result |-> MapOf(depMap), err |-> NoError]
    ELSE LET key == Head(order)
             d == ComposeDependency(key, pkg.Dependencies[key], packageName,
                                    orders[key].inputOrder, orders[key].annotationOrder)
         IN  IF d.err # NoError THEN [result |-> NilMap, err |-> d.err]
             ELSE ComposeDependenciesFrom(((packageName \o ":" \o key) :> d.result) @@ depMap,
                                          pkg, packageName, Tail(order), orders)

ComposeDependencies(pkg, packageName, order, orders) ==
    ComposeDependenciesFrom(EmptyMap, pkg, packageName, order, orders)

\* unicode.IsSpace: the white space strings.TrimSpace strips.  A character
\* is a string; one that a string of a module cannot hold is its code point.
WhiteSpace ==
    {" ", "\t", "\n", "\r", "\f", "U+000B", "U+0085", "U+00A0", "U+1680",
     "U+2000", "U+2001", "U+2002", "U+2003", "U+2004", "U+2005", "U+2006",
     "U+2007", "U+2008", "U+2009", "U+200A", "U+2028", "U+2029", "U+202F",
     "U+205F", "U+3000"}

\* strings.TrimSpace
RECURSIVE TrimLeft(_)
TrimLeft(str) == IF str # <<>> /\ Head(str) \in WhiteSpace THEN TrimLeft(Tail(str)) ELSE str

RECURSIVE TrimRight(_)
TrimRight(str) ==
    IF str # <<>> /\ str[Len(str)] \in WhiteSpace
    THEN TrimRight(SubSeq(str, 1, Len(str) - 1))
    ELSE str

TrimSpace(str) == TrimRight(TrimLeft(str))

\* strings.Split(str, sep) for a separator of one character.
RECURSIVE Split(_, _)
Split(str, sep) ==
    LET hits == {i \in DOMAIN str : str[i] = sep}
    IN  IF hits = {} THEN <<str>>
        ELSE <<SubSeq(str, 1, Min(hits) - 1)>> \o Split(SubSeq(str, Min(hits) + 1, Len(str)), sep)

\* strings.ContainsRune
ContainsRune(str, c) == \E i \in DOMAIN str : str[i] = c

\* strings.HasPrefix
HasPrefix(str, prefix) ==
    Len(prefix) <= Len(str) /\ SubSeq(str, 1, Len(prefix)) = prefix

\* path.Clean, the elements of the path one by one: an empty element and
\* "." are dropped, ".." takes the element before it away, is dropped at
\* the root and is kept at the start of a path that is not rooted.
RECURSIVE CleanElements(_, _, _)
CleanElements(elements, kept, rooted) ==
    IF elements = <<>> THEN kept
    ELSE LET e == Head(elements)
             rest == Tail(elements)
         IN  IF e = <<>> \/ e = <<".">> THEN CleanElements(rest, kept, rooted)
             ELSE IF e # <<".", ".">> THEN CleanElements(rest, Append(kept, e), rooted)
             ELSE IF kept # <<>> /\ kept[Len(kept)] # <<".", ".">>
             THEN CleanElements(rest, SubSeq(kept, 1, Len(kept) - 1), rooted)
             ELSE IF rooted THEN CleanElements(rest, kept, rooted)
             ELSE CleanElements(rest, Append(kept, e), rooted)

\* The elements with one slash between them.
RECURSIVE SlashJoin(_)
SlashJoin(elements) ==
    IF elements = <<>> THEN <<>>
    ELSE IF Len(elements) = 1 THEN elements[1]
    ELSE elements[1] \o <<"/">> \o SlashJoin(Tail(elements))

\* path.Clean: the shortest path name equivalent to str; "." for the empty
\* result, and a trailing slash only for the root.
Clean(str) ==
    LET rooted == str # <<>> /\ str[1] = "/"
        cleaned == (IF rooted THEN <<"/">> ELSE <<>>)
                   \o SlashJoin(CleanElements(Split(str, "/"), <<>>, rooted))
    IN  IF cleaned = <<>> THEN <<".">> ELSE cleaned

\* path.Join of two elements: empty elements are ignored, the result is
\* cleaned; the empty string when both are empty.
Join(a, b) ==
    IF a = <<>> /\ b = <<>> THEN <<>>
    ELSE IF a = <<>> THEN Clean(b)
    ELSE IF b = <<>> THEN Clean(a)
    ELSE Clean(a \o <<"/">> \o b)

\* The characters of the package names and namespaces of the model.
Chars ==
    [n \in {"p0", "p1", "p2", "p3", "p4", "ns", ""} |->
        CASE n = "p0" -> <<"p", "0">> [] n = "p1" -> <<"p", "1">>
          [] n = "p2" -> <<"p", "2">> [] n = "p3" -> <<"p", "3">>
          [] n = "p4" -> <<"p", "4">>
          [] n = "ns" -> <<"n", "s">> [] n = "" -> <<>>]

\* A variant that qualifies every reference.
QualifyAlways(act, packageName) == Join(Chars[packageName], act)

\* Lines 364-366 and 830-832: the action reference qualified with the name
\* of the package unless it holds a slash or starts with packageName/.
Qualify(act, packageName) ==
    IF ~ContainsRune(act, "/") /\ ~HasPrefix(act, Chars[packageName] \o <<"/">>)
    THEN Join(Chars[packageName], act)
    ELSE act

YAML_KEY_SEQUENCE == "sequence"

\* Lines 355-396: one sequence of ComposeSequences.
ComposeSequence(namespace, key, sequence, packageName, fl, ma, annotationOrder) ==
    LET actionList == Split(sequence.Actions, ",")
        components ==
            [i \in DOMAIN actionList |->
                Join(<<"/">> \o Chars[namespace], Qualify(TrimSpace(actionList[i]), packageName))]
        declaredAnnotations ==
            NonEmptyOrNil(ListOfAnnotations(sequence.Annotations, annotationOrder))
        wskaction ==
            [Name |-> key, Namespace |-> namespace,
             Exec |-> [Kind |-> YAML_KEY_SEQUENCE, Components |-> components],
             Publish |-> FALSE,
             Annotations |-> IF fl.Managed THEN ArrOf(Append(declaredAnnotations.m, ma))
                             ELSE declaredAnnotations]
    IN  [Action |-> wskaction, Packagename |-> packageName, Filepath |-> key]

\* Lines 352-398: ComposeSequences.
ComposeSequences(namespace, sequences, packageName, fl, ma, order, orders) ==
    [result |-> ArrOf([i \in DOMAIN order |->
                    ComposeSequence(namespace, order[i], sequences[order[i]], packageName,
                                    fl, ma, orders[order[i]].annotationOrder)]),
     err |-> NoError]

YAML_KEY_FEED == "feed"

\* Lines 723-793: one trigger of ComposeTriggers.
ComposeTrigger(name, declared, fl, ma, inputOrder, annotationOrder) ==
    LET trigger == IF declared.Feed = "" THEN [declared EXCEPT !.Feed = declared.Source]
                   ELSE declared
        feed == IF trigger.Feed # "" THEN ArrOf(<<KV(YAML_KEY_FEED, trigger.Feed)>>) ELSE NilArr
        inputs == ResolveAll(trigger.Inputs, inputOrder)
        listOfAnnotations == ListOfAnnotations(trigger.Annotations, annotationOrder)
        declaredAnnotations ==
            IF Len(listOfAnnotations) > 0 THEN ArrOf(feed.m \o listOfAnnotations) ELSE feed
        wsktrigger ==
            [Name |-> GetEnvVar(name), Namespace |-> trigger.Namespace, Publish |-> FALSE,
             Parameters |-> NonEmptyOrNil(inputs.list),
             Annotations |-> IF fl.Managed THEN ArrOf(Append(declaredAnnotations.m, ma))
                             ELSE declaredAnnotations]
    IN  IF inputs.err # NoError THEN [result |-> Nil, err |-> inputs.err]
        ELSE [result |-> wsktrigger, err |-> NoError]

\* Lines 719-796: ComposeTriggers; order is the order of pkg.GetTriggerList().
RECURSIVE ComposeTriggersFrom(_, _, _, _, _, _)
ComposeTriggersFrom(t1, pkg, fl, ma, order, orders) ==
    IF order = <<>> THEN [result |-> ArrOf(t1), err |-> NoError]
    ELSE LET name == Head(order)
             t == ComposeTrigger(name, pkg.Triggers[name], fl, ma,
                                 orders[name].inputOrder, orders[name].annotationOrder)
         IN  IF t.err # NoError THEN [result |-> NilArr, err |-> t.err]
             ELSE ComposeTriggersFrom(Append(t1, t.result), pkg, fl, ma, Tail(order), orders)

ComposeTriggers(pkg, fl, ma, order, orders) == ComposeTriggersFrom(<<>>, pkg, fl, ma, order, orders)

\* Lines 824-837: ComposeRules; order is the order of pkg.GetRuleList(), and
\* rule.ComposeWskRule() gives the rule its name, trigger and action.
ComposeRules(pkg, packageName, order) ==
    [result |-> ArrOf([i \in DOMAIN order |->
                    [Name |-> order[i], Trigger |-> pkg.Rules[order[i]].Trigger,
                     Action |-> Qualify(TrimSpace(pkg.Rules[order[i]].Action), packageName),
                     Publish |-> FALSE]]),
     err |-> NoError]

\* Lines 864-874: ComposeApiRecords; pkg.GetApis() is the list of the
\* declared APIs.
ComposeApiRecords(pkg) ==
    [result |-> ArrOf([i \in DOMAIN pkg.Apis |-> [ApiDoc |-> pkg.Apis[i]]]), err |-> NoError]

-----------------------------------------------------------------------------
(* manifest_parser.go: the compose-all entry points *)

Entries ==
    {"Dependencies", "Packages", "Sequences", "Actions", "Triggers", "Rules", "ApiRecords"}

\* The namespace argument of ComposeSequencesFromAllPackages.
Namespace == "ns"

\* The orders of the loops over the inputs and annotations of an entity.
OrderChoices(e) ==
    [inputOrder : IF "Inputs" \in DOMAIN e THEN Perms(DOMAIN e.Inputs) ELSE {<<>>},
     annotationOrder : Perms(DOMAIN e.Annotations)]

\* One choice of orders for every entity of a map.
EntityOrders(entities) ==
    {f \in [DOMAIN entities -> UNION {OrderChoices(entities[k]) : k \in DOMAIN entities}] :
        \A k \in DOMAIN entities : f[k] \in OrderChoices(entities[k])}

\* One environment for every action of a map.
ActionEnvironments(declared) ==
    {f \in [DOMAIN declared -> UNION {Environments(declared[k]) : k \in DOMAIN declared}] :
        \A k \in DOMAIN declared : f[k] \in Environments(declared[k])}

\* What the single-package composer of the entry point can return for the
\* package pkg under the name n: a list or a map, and an error.
Outcomes(point, pkg, n, fl, ma) ==
    CASE point = "Packages" ->
            {LET c == ComposePackage(pkg, n, fl, ma, o.inputOrder, o.annotationOrder)
             IN  IF c.err # NoError THEN [result |-> NilMap, err |-> c.err]
                 ELSE [result |-> MapOf(n :> c.result), err |-> NoError] :
                o \in OrderChoices(pkg)}
      [] point = "Dependencies" ->
            {ComposeDependencies(pkg, n, order, orders) :
                order \in Perms(DOMAIN pkg.Dependencies), orders \in EntityOrders(pkg.Dependencies)}
      [] point = "Actions" ->
            {LET c == ComposeActions(pkg.Actions, n, fl, ma, Files, order, envs)
             IN  [result |-> c.result, err |-> c.err] :
                order \in Perms(DOMAIN pkg.Actions), envs \in ActionEnvironments(pkg.Actions)}
      [] point = "Sequences" ->
            {ComposeSequences(Namespace, pkg.Sequences, n, fl, ma, order, orders) :
                order \in Perms(DOMAIN pkg.Sequences), orders \in EntityOrders(pkg.Sequences)}
      [] point = "Triggers" ->
            {ComposeTriggers(pkg, fl, ma, order, orders) :
                order \in Perms(DOMAIN pkg.Triggers), orders \in EntityOrders(pkg.Triggers)}
      [] point = "Rules" ->
            {ComposeRules(pkg, n, order) : order \in Perms(DOMAIN pkg.Rules)}
      [] point = "ApiRecords" -> {ComposeApiRecords(pkg)}

\* A variant that keeps the entities of the package composed last.
AccumulateLast(point, acc, value) == value.m

\* packages[n] = s, dependencies[k] = v, or append(list, r...).
Accumulate(point, acc, value) ==
    IF point \in {"Packages", "Dependencies"} THEN value.m @@ acc ELSE acc \o value.m

\* parsers.Package of a manifest.
ManifestPackage(name, inputs, declared, sequences, triggers, rules, apis, dependencies) ==
    [Packagename |-> name, Namespace |-> "", Version |-> "", License |-> "",
     Inputs |-> inputs, Annotations |-> [a |-> "1"],
     Actions |-> declared, Sequences |-> sequences, Triggers |-> triggers,
     Rules |-> rules, Apis |-> apis, Dependencies |-> dependencies]

\* A package without content (and the unnamed single package).
NoPackage == ManifestPackage("", <<>>, <<>>, <<>>, <<>>, <<>>, <<>>, <<>>)

Trigger(feed, fromSource, inputs) ==
    [Namespace |-> "", Feed |-> feed, Source |-> fromSource, Inputs |-> inputs,
     Annotations |-> <<>>]

Dependency(location) ==
    [Version |-> "", Location |-> location, Inputs |-> <<>>, Annotations |-> <<>>]

\* The packages of the model; n is the name the entities carry, so that
\* the entities of different packages have different names.
\* "full" composes under every entry point, "bad" fails under every entry
\* point that can fail, "empty" declares nothing.
PackageKinds == {"full", "bad", "empty"}

PackageOf(kind, name, n) ==
    IF kind = "empty" THEN [NoPackage EXCEPT !.Packagename = name, !.Annotations = <<>>]
    ELSE ManifestPackage(name,
            IF kind = "bad" THEN [x |-> MalformedParameter] ELSE [x |-> Parameter("1")],
            (("a_" \o n) :> PlainAction(IF kind = "bad" THEN TextFile ELSE JsFile, ""))
                @@ (("b_" \o n) :> PlainAction(PyFile, "")),
            ("s_" \o n) :> [Actions |-> <<"a", ",", " ", "q", "/", "b">>, Annotations |-> <<>>],
            ("t_" \o n) :> Trigger("", "alarm",
                               IF kind = "bad" THEN [x |-> MalformedParameter] ELSE <<>>),
            ("r_" \o n) :> [Trigger |-> "t_" \o n, Action |-> <<"a">>],
            <<"api_" \o n>>,
            [d |-> Dependency(IF kind = "bad" THEN <<"ftp.site/x">> ELSE <<"github.com/org/repo">>)])

\* The maps of packages over a subset of the names.
PackageMaps(names) ==
    {NilMap} \cup
    UNION {{MapOf([n \in S |-> PackageOf(kinds[n], "", n)]) : kinds \in [S -> PackageKinds]} :
              S \in (SUBSET names) \ {{}}}

\* The manifests: a single package that is named p0 or unnamed, a packages
\* map over p1, p2 and p3, the packages of the project over p4.
Manifests ==
    {[Package |-> single, Packages |-> packages, Project |-> [Packages |-> project]] :
        single \in {NoPackage} \cup {PackageOf(k, "p0", "p0") : k \in PackageKinds},
        packages \in PackageMaps({"p1", "p2", "p3"}),
        project \in PackageMaps({"p4"})}

InitAll ==
    /\ IdleBind
    /\ IdleWeb
    /\ IdleCompose
    /\ apc = "call"
    /\ entry \in Entries
    /\ maniDoc \in Manifests
    /\ allFlags \in {[Strict |-> FALSE, Managed |-> m] : m \in BOOLEAN}
    /\ selected = ""
    /\ manifestPackages = EmptyMap
    /\ pending = {}
    /\ aggregate = EmptyMap
    /\ composedLog = <<>>
    /\ allResult = NilMap
    /\ allErr = NoError

\* The single package is named: its composer is called and the entry point
\* returns (ComposeAllPackages: after the loop over no package).
ComposeSinglePackage ==
    /\ apc = "call"
    /\ ManifestSource(maniDoc) = "Package"
    /\ \E out \in Outcomes(entry, maniDoc.Package, maniDoc.Package.Packagename,
                           allFlags, ManagedAnnotation) :
          /\ composedLog' = <<[name |-> maniDoc.Package.Packagename, err |-> out.err]>>
          /\ aggregate' = IF entry = "Packages" /\ out.err = NoError THEN out.result.m ELSE aggregate
          /\ allResult' = IF entry = "Packages" /\ out.err # NoError THEN NilMap ELSE out.result
          /\ allErr' = out.err
    /\ selected' = "Package"
    /\ apc' = "returned"
    /\ UNCHANGED <<entry, maniDoc, allFlags, manifestPackages, pending>>
    /\ UNCHANGED <<bindVars, webVars, composeVars>>

\* The single package is not named: manifestPackages is the packages map,
\* or the packages of the project when that map is empty.
SelectPackageMap ==
    /\ apc = "call"
    /\ ManifestSource(maniDoc) # "Package"
    /\ selected' = ManifestSource(maniDoc)
    /\ manifestPackages' = AuthoritativePackages(maniDoc)
    /\ pending' = DOMAIN manifestPackages'
    /\ apc' = "loop"
    /\ UNCHANGED <<entry, maniDoc, allFlags, aggregate, composedLog, allResult, allErr>>
    /\ UNCHANGED <<bindVars, webVars, composeVars>>

\* A variant that returns what the loop has built up so far.
AbortResultPartial(acc) == MapOf(acc)

\* "return nil, err" in the loop over manifestPackages.
AbortResult(acc) == NilMap

\* One iteration of the loop over manifestPackages.
ComposeNextPackage ==
    /\ apc = "loop"
    /\ \E n \in pending :
          \E out \in Outcomes(entry, manifestPackages[n], n, allFlags, ManagedAnnotation) :
             /\ composedLog' = Append(composedLog, [name |-> n, err |-> out.err])
             /\ pending' = pending \ {n}
             /\ IF out.err = NoError
                THEN /\ aggregate' = Accumulate(entry, aggregate, out.result)
                     /\ UNCHANGED <<apc, allResult, allErr>>
                ELSE /\ apc' = "returned"
                     /\ allResult' = AbortResult(aggregate)
                     /\ allErr' = out.err
                     /\ UNCHANGED aggregate
    /\ UNCHANGED <<entry, maniDoc, allFlags, selected, manifestPackages>>
    /\ UNCHANGED <<bindVars, webVars, composeVars>>

\* The loop has visited every package.
ReturnAll ==
    /\ apc = "loop"
    /\ pending = {}
    /\ apc' = "returned"
    /\ allResult' = MapOf(aggregate)
    /\ allErr' = NoError
    /\ UNCHANGED <<entry, maniDoc, allFlags, selected, manifestPackages, pending, aggregate,
                   composedLog>>
    /\ UNCHANGED <<bindVars, webVars, composeVars>>

NextAll == ComposeSinglePackage \/ SelectPackageMap \/ ComposeNextPackage \/ ReturnAll

SpecAll == InitAll /\ [][NextAll]_vars

-----------------------------------------------------------------------------
(* Properties of the compose-all entry points *)

\* The source the precedence rule names for the manifest.
PrecedenceSource(m) ==
    IF m.Package.Packagename # "" THEN "Package"
    ELSE IF ~m.Packages.isNil /\ DOMAIN m.Packages.m # {} THEN "Packages"
    ELSE "Project.Packages"

\* The packages of a source of the manifest, by name.
PackagesOfSource(m, src) ==
    CASE src = "Package" -> m.Package.Packagename :> m.Package
      [] src = "Packages" -> m.Packages.m
      [] src = "Project.Packages" -> m.Project.Packages.m

\* The names of the entities the package declares for the entry point.
DeclaredIds(point, n, pkg) ==
    CASE point = "Packages" -> {n}
      [] point = "Dependencies" -> {n \o ":" \o k : k \in DOMAIN pkg.Dependencies}
      [] point = "Actions" -> DOMAIN pkg.Actions
      [] point = "Sequences" -> DOMAIN pkg.Sequences
      [] point = "Triggers" -> DOMAIN pkg.Triggers
      [] point = "Rules" -> DOMAIN pkg.Rules
      [] point = "ApiRecords" -> {pkg.Apis[i] : i \in DOMAIN pkg.Apis}

DeclaredIn(point, m, src) ==
    UNION {DeclaredIds(point, n, PackagesOfSource(m, src)[n]) : n \in DOMAIN PackagesOfSource(m, src)}

\* The names of the entities of a result of the entry point.
ResultIds(point, result) ==
    CASE point \in {"Packages", "Dependencies"} -> DOMAIN result.m
      [] point \in {"Actions", "Sequences"} -> {result.m[i].Action.Name : i \in DOMAIN result.m}
      [] point \in {"Triggers", "Rules"} -> {result.m[i].Name : i \in DOMAIN result.m}
      [] point = "ApiRecords" -> {result.m[i].ApiDoc : i \in DOMAIN result.m}

\* C5: every compose-all entry point reads one source, the one the
\* precedence rule names for the manifest whatever the entry point is (the
\* single package if it is named, else the packages map if it is not empty,
\* else the packages of the project): only packages of that source are
\* composed, every returned entity is declared in that source, and a call
\* that returns without error returns exactly the entities of that source.
C5_PackagePrecedence ==
    LET src == PrecedenceSource(maniDoc) IN
    /\ apc \in {"loop", "returned"} =>
          /\ selected = src
          /\ \A i \in DOMAIN composedLog : composedLog[i].name \in DOMAIN PackagesOfSource(maniDoc, src)
    /\ apc = "returned" =>
          /\ ResultIds(entry, allResult) \subseteq DeclaredIn(entry, maniDoc, src)
          /\ allErr = NoError => ResultIds(entry, allResult) = DeclaredIn(entry, maniDoc, src)

\* A manifest that populates all three sources: the call returned the
\* entities of the single package only.
C5_Witness ==
    /\ apc = "returned"
    /\ allErr = NoError
    /\ maniDoc.Package.Packagename = "p0"
    /\ DOMAIN maniDoc.Packages.m = {"p1", "p2"}
    /\ DOMAIN maniDoc.Project.Packages.m = {"p4"}
    /\ entry = "Actions"
    /\ ResultIds(entry, allResult) = {"a_p0", "b_p0"}

\* C6: when the source is a map of packages and the composer of a package
\* fails, the entry point has returned that error and a nil result, and
\* the failing package is the last one the call composed.
C6_FailFast ==
    \A i \in DOMAIN composedLog :
        (selected \in {"Packages", "Project.Packages"} /\ composedLog[i].err # NoError) =>
            /\ apc = "returned"
            /\ allErr = composedLog[i].err
            /\ allResult = NilMap
            /\ i = Len(composedLog)

\* The second package of a map failed after the first had been composed
\* into the local result, and a third package was left unvisited.
C6_Witness ==
    /\ selected = "Packages"
    /\ Len(composedLog) = 2
    /\ composedLog[1].err = NoError
    /\ composedLog[2].err # NoError
    /\ aggregate # EmptyMap
    /\ pending # {}
    /\ apc = "returned"

-----------------------------------------------------------------------------
(* The compose-all entry points over manifests whose one package varies in *)
(* the section the entry point composes                                    *)

\* The action references a sequence lists: a name, a name with blanks
\* around it, a name between a tab and a line feed, a reference into another
\* package, one into the own package.
SequenceElements ==
    { <<"a">>, <<" ", "b", " ">>, <<"\t", "c", "\n">>, <<"q", "/", "b">>,
      <<"p", "1", "/", "a">> }

MaxComponents == 3

ElementLists == UNION {[1..k -> SequenceElements] : k \in 1..MaxComponents}

\* The value of the actions key of a sequence: the elements, comma-separated.
RECURSIVE CommaJoin(_)
CommaJoin(list) ==
    IF Len(list) = 1 THEN list[1] ELSE list[1] \o <<",">> \o CommaJoin(Tail(list))

Sequence(list, annotations) == [Actions |-> CommaJoin(list), Annotations |-> annotations]

\* The sections of a package, by the entry point that composes them.
SequenceSections ==
    {"s1" :> Sequence(l, <<>>) : l \in ElementLists}
    \cup {("s1" :> Sequence(<<<<"a">>, <<"a">>>>, an)) @@ ("s2" :> Sequence(<<<<"q", "/", "b">>>>, <<>>)) :
            an \in AnnotationMaps}

ActionSections ==
    {"a1" :> a : a \in PayloadVariants}
    \cup {("a1" :> PlainAction(JsFile, "")) @@ ("a2" :> b) :
            b \in {PlainAction(PyFile, ""), PlainAction(TextFile, ""), PlainAction(Directory, "")}}

\* parsers.Trigger with annotations.
AnnotatedTrigger(feed, fromSource, inputs, annotations) ==
    [Trigger(feed, fromSource, inputs) EXCEPT !.Annotations = annotations]

TriggerAnnotationMaps == AnnotationMaps \cup {(YAML_KEY_FEED :> "mine")}

TriggerSections ==
    {"t1" :> AnnotatedTrigger(f[1], f[2], i, a) :
        f \in {<<"", "">>, <<"f", "">>, <<"", "alarm">>, <<"f", "alarm">>},
        i \in InputMaps, a \in TriggerAnnotationMaps}
    \cup {("t1" :> Trigger("f", "", <<>>)) @@ ("t2" :> Trigger("", "", i)) : i \in InputMaps}

\* parsers.Rule
Rule(trigger, target) == [Trigger |-> trigger, Action |-> target]

RuleSections ==
    {"r1" :> Rule("t1", e) : e \in SequenceElements}
    \cup {("r1" :> Rule("t1", e)) @@ ("r2" :> Rule("t1", <<"a">>)) : e \in SequenceElements}

\* The package with one section of the entry point; the package composer
\* reads the inputs and annotations of the package itself.
SectionPackages(point) ==
    LET none == [NoPackage EXCEPT !.Annotations = <<>>]
    IN  CASE point = "Sequences" -> {[none EXCEPT !.Sequences = x] : x \in SequenceSections}
          [] point = "Actions" -> {[none EXCEPT !.Actions = x] : x \in ActionSections}
          [] point = "Triggers" -> {[none EXCEPT !.Triggers = x] : x \in TriggerSections}
          [] point = "Rules" -> {[none EXCEPT !.Rules = x] : x \in RuleSections}
          [] point = "Packages" ->
                {[none EXCEPT !.Inputs = i, !.Annotations = a] :
                    i \in InputMaps, a \in AnnotationMaps}

SectionEntries == {"Packages", "Sequences", "Actions", "Triggers", "Rules"}

\* A second package, which declares one entity of every kind.
SecondPackage ==
    [NoPackage EXCEPT !.Annotations = <<>>,
                      !.Actions = "a9" :> PlainAction(PyFile, ""),
                      !.Sequences = "s9" :> Sequence(<<<<"a">>, <<"q", "/", "b">>>>, <<>>),
                      !.Triggers = "t9" :> Trigger("f", "", <<>>),
                      !.Rules = "r9" :> Rule("t9", <<"a">>)]

\* The manifests: the package is the single package p0, the package p1 of
\* the packages map, or p1 next to the second package p2.
SectionManifests(point) ==
    {[Package |-> [pkg EXCEPT !.Packagename = "p0"], Packages |-> NilMap,
      Project |-> [Packages |-> NilMap]] : pkg \in SectionPackages(point)}
    \cup {[Package |-> NoPackage, Packages |-> MapOf("p1" :> pkg),
           Project |-> [Packages |-> NilMap]] : pkg \in SectionPackages(point)}
    \cup {[Package |-> NoPackage, Packages |-> MapOf(("p1" :> pkg) @@ ("p2" :> SecondPackage)),
           Project |-> [Packages |-> NilMap]] : pkg \in SectionPackages(point)}

InitSections ==
    /\ IdleBind
    /\ IdleWeb
    /\ IdleCompose
    /\ apc = "call"
    /\ entry \in SectionEntries
    /\ maniDoc \in SectionManifests(entry)
    /\ allFlags \in {[Strict |-> FALSE, Managed |-> m] : m \in BOOLEAN}
    /\ selected = ""
    /\ manifestPackages = EmptyMap
    /\ pending = {}
    /\ aggregate = EmptyMap
    /\ composedLog = <<>>
    /\ allResult = NilMap
    /\ allErr = NoError

SpecSections == InitSections /\ [][NextAll]_vars

\* The package an entity of the result was composed from.
SectionPackage(name) ==
    IF selected = "Package" THEN maniDoc.Package ELSE manifestPackages[name]

\* The elements a declared action list names, in their order.
DeclaredElements(str) == CHOOSE l \in ElementLists : CommaJoin(l) = str

WithoutBlanks(e) == SelectSeq(e, LAMBDA c : c \notin WhiteSpace)

HasSlash(e) == \E i \in DOMAIN e : e[i] = "/"

\* "/n/p/" + name, or "/n/" + element for an element that holds a slash.
ExpectedComponent(e, n, p) ==
    IF HasSlash(e) THEN <<"/">> \o Chars[n] \o <<"/">> \o WithoutBlanks(e)
    ELSE <<"/">> \o Chars[n] \o <<"/">> \o Chars[p] \o <<"/">> \o WithoutBlanks(e)

SequencesReturned == apc = "returned" /\ entry = "Sequences" /\ allErr = NoError

\* C12: every composed sequence has the kind sequence and one component
\* for each element of its declared comma-separated action list, in the
\* declared order and with duplicates kept; the component is
\* "/namespace/package/name" for an element without a slash and
\* "/namespace/element" for an element that holds one.  The elements are
\* action references: non-empty names, optionally with blanks around them
\* or a package in front of them.
C12_SequenceQualification ==
    SequencesReturned =>
        \A i \in DOMAIN allResult.m :
            LET r == allResult.m[i]
                declared == SectionPackage(r.Packagename).Sequences[r.Action.Name]
                elements == DeclaredElements(declared.Actions)
                components == r.Action.Exec.Components
            IN  /\ r.Action.Exec.Kind = "sequence"
                /\ Len(components) = Len(elements)
                /\ \A j \in DOMAIN elements :
                      components[j] = ExpectedComponent(elements[j], Namespace, r.Packagename)

\* A sequence of three components was composed whose list names one
\* action twice and refers into another package.
C12_Witness ==
    /\ SequencesReturned
    /\ \E i \in DOMAIN allResult.m :
          LET components == allResult.m[i].Action.Exec.Components
          IN  /\ Len(components) = 3
              /\ components[1] = components[3]
              /\ components[1] = <<"/", "n", "s", "/", "p", "1", "/", "a">>
              /\ components[2] = <<"/", "n", "s", "/", "q", "/", "b">>

\* The list holds the annotation at a position behind one entry for every
\* key of the declared annotations.
AfterDeclared(list, annotation, declared) ==
    \E j \in DOMAIN list :
        /\ list[j] = annotation
        /\ \A k \in DOMAIN declared :
              \E h \in 1..(j - 1) : list[h].Key = k /\ list[h].Value = GetEnvVar(declared[k])

\* C13: when the managed-deployment flag is set, the annotation list of
\* every action record that ComposeActions returns holds the managed
\* annotation behind the annotations the action declares, whatever the
\* web-export mode of the action.
C13_ManagedAnnotation ==
    (cpc = "returned" /\ composeErr = NoError /\ flags.Managed) =>
        \A i \in DOMAIN composeResult.m :
            LET r == composeResult.m[i].Action
            IN  AfterDeclared(r.Annotations.m, ManagedAnnotation, actionMap[r.Name].Annotations)

\* The package, action and trigger entities of a composed entity set.
EntitiesOf(d) ==
    {d.Packages[n].Package : n \in DOMAIN d.Packages}
    \cup UNION {{d.Packages[n].Actions[a] : a \in DOMAIN d.Packages[n].Actions} :
                   n \in DOMAIN d.Packages}
    \cup {d.Triggers[t] : t \in DOMAIN d.Triggers}

\* C14: no entity of the composed entity set holds a parameter with a nil
\* value, at any point of BindAssets and after it, also when the
\* deployment descriptor declares an input without a value.
C14_NoNilValues ==
    \A e \in EntitiesOf(deployment) :
        \A i \in DOMAIN e.Parameters : e.Parameters[i].Value # Nil

SectionsReturned == apc = "returned" /\ allErr = NoError /\ ~allResult.isNil

\* The parameter lists and the annotation lists of the entities of the
\* result of the entry point.
ComposedLists ==
    CASE entry = "Packages" ->
            UNION {{allResult.m[n].Parameters.m, allResult.m[n].Annotations.m} :
                      n \in DOMAIN allResult.m}
      [] entry = "Actions" ->
            UNION {{allResult.m[i].Action.Parameters.m, allResult.m[i].Action.Annotations.m} :
                      i \in DOMAIN allResult.m}
      [] entry = "Sequences" ->
            {allResult.m[i].Action.Annotations.m : i \in DOMAIN allResult.m}
      [] entry = "Triggers" ->
            UNION {{allResult.m[i].Parameters.m, allResult.m[i].Annotations.m} :
                      i \in DOMAIN allResult.m}
      [] OTHER -> {}

UniqueKeys(list) ==
    \A i \in DOMAIN list : \A j \in DOMAIN list : list[i].Key = list[j].Key => i = j

\* C15: in every composed package, action, sequence and trigger no key
\* occurs twice in the parameter list and no key occurs twice in the
\* annotation list, also for a trigger that declares a feed and a user
\* annotation with the feed key, and for a managed deployment whose user
\* annotations use the managed key.
C15_KeyUniqueness ==
    SectionsReturned => \A list \in ComposedLists : UniqueKeys(list)

\* The archives that exist and did not exist when ComposeActions was
\* called: the files of the call are all among Files.
TemporaryArchives == fs \ Files

\* C16: when ComposeActions has returned, with a result or with an error
\* (a failure of the zip writer and of loading the archive included), no
\* temporary archive that the call created for a directory exists.
C16_ArchiveRelease == cpc = "returned" => TemporaryArchives = {}

\* This step is the iteration of the trigger scan over the deployment
\* package n.
TriggerStep(n) ==
    /\ Len(visited') = Len(visited) + 1
    /\ visited'[Len(visited')] = <<"trigger", n>>

\* The step merged the deployment trigger o into the composed trigger t by
\* the input rule and the annotation rule.
TriggerMerged(o, t) ==
    LET before == deployment.Triggers[t]
        now == deployment'.Triggers[t]
        unknown == DOMAIN o.Annotations \ KeysOf(before.Annotations)
    IN  /\ IF DOMAIN o.Inputs # {}
           THEN IsOverrideMerge(now.Parameters, o.Inputs, before.Parameters)
           ELSE now.Parameters = before.Parameters
        /\ SameKeys(now.Annotations, before.Annotations)
        /\ IF unknown = {}
           THEN /\ err' = NoError
                /\ \A k \in DOMAIN o.Annotations :
                      ValueOf(now.Annotations, k) = o.Annotations[k]
           ELSE /\ err'.kind = "YAMLFileFormatError"
                /\ err'.key \in unknown
                /\ err'.file = DeploymentFile

\* C17: the iteration of the trigger scan over a deployment package merges
\* the trigger t the package declares into the trigger t of the trigger set
\* of the deployment, by the input rule and the annotation rule of packages
\* and actions, whether or not the composed set holds a package of that
\* name; when the trigger set holds no trigger t, the iteration changes
\* nothing and returns no error.  (A deployment package of the model
\* declares at most one trigger.)
C17_TriggerMergeScope ==
    [][\A n \in DOMAIN packMap :
          TriggerStep(n) =>
              \A t \in DOMAIN packMap[n].Triggers :
                  IF t \in DOMAIN deployment.Triggers
                  THEN TriggerMerged(packMap[n].Triggers[t], t)
                  ELSE deployment' = deployment /\ err' = NoError]_vars

\* The trigger scan merged the input of the trigger that the deployment
\* package p2 declares, and the composed set holds no package p2.
C17_Witness ==
    /\ Done
    /\ err = NoError
    /\ "p2" \notin DOMAIN composed0.Packages
    /\ Visited("trigger", "p2")
    /\ TriggerName \in DOMAIN Declared["p2"].Triggers
    /\ TriggerName \in DOMAIN deployment.Triggers
    /\ composed0.Triggers[TriggerName].Parameters = <<KV("y", "2"), KV("x", "1")>>
    /\ deployment.Triggers[TriggerName].Parameters = <<KV("x", "7"), KV("y", "2")>>

\* The packages the entry point composed, by the name it composed them under.
ComposedPackages ==
    IF selected = "Package" THEN maniDoc.Package.Packagename :> maniDoc.Package
    ELSE manifestPackages

\* The entities the packages declare in a section, with their package.
DeclaredEntities(field) ==
    UNION {{<<n, k>> : k \in DOMAIN ComposedPackages[n][field]} : n \in DOMAIN ComposedPackages}

\* The list holds one entity for each declared entity of the section.
OnePerDeclared(names, field) ==
    /\ Len(names) = Cardinality(DeclaredEntities(field))
    /\ {names[i] : i \in DOMAIN names} = {d[2] : d \in DeclaredEntities(field)}

\* The package that declares the entity k of the section.
OwnerOf(field, k) == CHOOSE n \in DOMAIN ComposedPackages : k \in DOMAIN ComposedPackages[n][field]

\* C18: a manifest that composes without error yields one package entity
\* for each declared package, one action entity for each declared action,
\* one sequence entity for each declared sequence with one component for
\* each listed action in the listed order, one trigger entity for each
\* declared trigger and one rule entity for each declared rule; the action
\* of a rule is "package/name" when the declared target holds no slash.
C18_EntityCounts ==
    SectionsReturned =>
        CASE entry = "Packages" ->
                /\ DOMAIN allResult.m = DOMAIN ComposedPackages
                /\ \A n \in DOMAIN allResult.m : allResult.m[n].Name = n
          [] entry = "Actions" ->
                OnePerDeclared([i \in DOMAIN allResult.m |-> allResult.m[i].Action.Name], "Actions")
          [] entry = "Sequences" ->
                /\ OnePerDeclared([i \in DOMAIN allResult.m |-> allResult.m[i].Action.Name],
                                  "Sequences")
                /\ \A i \in DOMAIN allResult.m :
                      LET r == allResult.m[i]
                          listed == DeclaredElements(
                                        ComposedPackages[r.Packagename].Sequences[r.Action.Name].Actions)
                      IN  /\ Len(r.Action.Exec.Components) = Len(listed)
                          /\ \A j \in DOMAIN listed :
                                SubSeq(r.Action.Exec.Components[j],
                                       Len(r.Action.Exec.Components[j]) - Len(WithoutBlanks(listed[j])) + 1,
                                       Len(r.Action.Exec.Components[j])) = WithoutBlanks(listed[j])
          [] entry = "Triggers" ->
                OnePerDeclared([i \in DOMAIN allResult.m |-> allResult.m[i].Name], "Triggers")
          [] entry = "Rules" ->
                /\ OnePerDeclared([i \in DOMAIN allResult.m |-> allResult.m[i].Name], "Rules")
                /\ \A i \in DOMAIN allResult.m :
                      LET r == allResult.m[i]
                          owner == OwnerOf("Rules", r.Name)
                          target == ComposedPackages[owner].Rules[r.Name].Action
                      IN  ~HasSlash(target) =>
                             r.Action = Chars[owner] \o <<"/">> \o WithoutBlanks(target)

\* Two packages composed into three rules: the rule r1 of p1, whose target
\* " b " became "p1/b", its rule r2 and the rule r9 of p2.
C18_Witness ==
    /\ SectionsReturned
    /\ entry = "Rules"
    /\ Len(allResult.m) = 3
    /\ \E i \in DOMAIN allResult.m :
          allResult.m[i].Name = "r1" /\ allResult.m[i].Action = <<"p", "1", "/", "b">>
    /\ \E i \in DOMAIN allResult.m :
          allResult.m[i].Name = "r9" /\ allResult.m[i].Action = <<"p", "2", "/", "a">>

\* C19: when ComposeActions returns an error, the list of action records
\* it returns is empty, also when the loop had composed other actions of
\* the package before the one that failed.
C19_NoPartialResult ==
    (cpc = "returned" /\ composeErr # NoError) => composeResult.m = <<>>

\* C20: at no point of a ComposeActions call do two temporary archives
\* that the call created exist together: the archive of a directory is
\* removed before the loop composes the next action.
C20_NoArchiveAccumulation == Cardinality(TemporaryArchives) <= 1

\* C21: every action record that ComposeActions returns without an error
\* for an action whose function is a single file has a non-empty kind,
\* whatever the extension of the file, the declared runtime and the strict
\* flag.
C21_ValidKind ==
    (cpc = "returned" /\ composeErr = NoError) =>
        \A i \in DOMAIN composeResult.m :
            LET r == composeResult.m[i].Action
            IN  IsSingleFile(actionMap[r.Name]) => r.Exec.Kind # ""

\* What one iteration gives for the declared action when the loop has
\* composed no action before it and every file can be read and packaged.
ComposedFirst(key) ==
    ComposeAction(Locals(<<>>, <<>>, <<>>, Files), key, actionMap[key], ComposedPackage,
                  flags, ManagedAnnotation,
                  CHOOSE env \in Environments(actionMap[key]) : env.zip = "ok")

\* C22: the kind an iteration of ComposeActions gives an action, and
\* whether the iteration fails with InvalidRuntimeError, are those the
\* action gets as the first action of the call: they do not depend on the
\* actions the loop composed before it.
C22_PerActionIndependence ==
    \A i \in DOMAIN trail :
        LET key == trail[i].key
            first == ComposedFirst(key)
        IN  /\ trail[i].err = InvalidRuntimeError(key) => first.err = InvalidRuntimeError(key)
            /\ trail[i].err = NoError =>
                  /\ first.err = NoError
                  /\ s1[i].Action.Exec.Kind = first.exec.Kind

\* One order of visiting the elements of a set.
OneOrder(S) == CHOOSE order \in Perms(S) : TRUE

\* The three scans of BindAssets with the packages visited in the given
\* order and every inner loop in one fixed order.
RECURSIVE PackageScan(_, _, _)
PackageScan(dep, packs, order) ==
    IF order = <<>> THEN [deployment |-> dep, err |-> NoError]
    ELSE IF Head(order) \notin DOMAIN dep.Packages THEN [deployment |-> dep, err |-> NoError]
    ELSE LET pack == packs[Head(order)]
             r == BindPackageBody(dep, pack, OneOrder(DOMAIN pack.Inputs),
                                  OneOrder(DOMAIN pack.Annotations))
         IN  IF r.err # NoError THEN r ELSE PackageScan(r.deployment, packs, Tail(order))

RECURSIVE ActionScan(_, _, _)
ActionScan(dep, packs, order) ==
    IF order = <<>> THEN [deployment |-> dep, err |-> NoError]
    ELSE IF Head(order) \notin DOMAIN dep.Packages THEN [deployment |-> dep, err |-> NoError]
    ELSE LET declared == packs[Head(order)].Actions
             r == BindActionsBody(dep, Head(order), declared, OneOrder(DOMAIN declared),
                                  CHOOSE ios \in OrdersFor(declared, "Inputs") : TRUE,
                                  CHOOSE aos \in OrdersFor(declared, "Annotations") : TRUE)
         IN  IF r.err # NoError THEN r ELSE ActionScan(r.deployment, packs, Tail(order))

RECURSIVE TriggerScan(_, _, _)
TriggerScan(dep, packs, order) ==
    IF order = <<>> THEN [deployment |-> dep, err |-> NoError]
    ELSE LET declared == packs[Head(order)].Triggers
             r == BindTriggersBody(dep, declared, OneOrder(DOMAIN declared),
                                   CHOOSE ios \in OrdersFor(declared, "Inputs") : TRUE,
                                   CHOOSE aos \in OrdersFor(declared, "Annotations") : TRUE)
         IN  IF r.err # NoError THEN r ELSE TriggerScan(r.deployment, packs, Tail(order))

\* What BindAssets gives for the composed entity set and the descriptor of
\* the behaviour when it visits the deployment packages in one fixed order.
BindAssetsInOneOrder ==
    LET order == OneOrder(DOMAIN Declared)
        p == PackageScan(composed0, Declared, order)
        a == ActionScan(p.deployment, Declared, order)
        t == TriggerScan(a.deployment, Declared, order)
    IN  IF p.err # NoError THEN p ELSE IF a.err # NoError THEN a ELSE t

\* C23: for a composed entity set and a deployment descriptor, BindAssets
\* ends with the same entity set and the same error whatever the order in
\* which the range loops visit the deployment packages and their inputs and
\* annotations: every run ends as the run in one fixed order does.
C23_MergeDeterminism ==
    Done => /\ deployment = BindAssetsInOneOrder.deployment
            /\ err = BindAssetsInOneOrder.err

\* C24: when BindAssets returns an error, the parameter list and the
\* annotations of every entity of the composed entity set are those of
\* before the call.
C24_MergeAtomicity ==
    (Done /\ err # NoError) => deployment = composed0

====
